---- MODULE Spec2Model ----
(***************************************************************************)
(* The spawn server of libcommon: the connection multiplexer               *)
(* (SpawnServerProcess, SpawnServerConnection), the decoder of the EXEC,   *)
(* KILL and CONNECT datagrams, and the child process registry              *)
(* (ChildProcessRegistry) with its SIGCHLD reap loop and kill timers.      *)
(*                                                                         *)
(* The server is single-threaded: every handler of the event loop          *)
(* (ReadEventCallback, OnSigChld, KillTimeoutCallback) runs to its end     *)
(* before the next one starts, so each is one action.  Handlers are        *)
(* written as operators from a server state record S to the next one,      *)
(* which lets a handler call another the way the code does.                *)
(***************************************************************************)
EXTENDS Integers, Sequences, FiniteSets, TLC

(***************************************************************************)
(* Bounds of the model.                                                    *)
(***************************************************************************)
\* connections ever created, the initial one included
MaxConns == 2
\* children ever forked
MaxPids == 2
\* largest request id a client uses
MaxId == 2
\* capacity of UidGid::groups, scaled down
GroupsMaxSize == 1
\* sub-command bytes of an EXEC payload in the decoder runs
MaxTail == 4
\* fds that come with a datagram in the decoder runs
MaxFds == 2

(***************************************************************************)
(* Program constants.                                                      *)
(***************************************************************************)
SIGKILL == 9
SIGUSR1 == 10
SIGTERM == 15
\* W_EXITCODE(0xff, 0)
ExitFailure == 65280

Conns == 1..MaxConns
Pids == 1..MaxPids
Ids == 1..MaxId
\* the signals of the KILL datagrams: one that arms the kill timeout and
\* one that does not (SIGTERM is what a teardown sends)
KillSignos == {SIGKILL, SIGUSR1}

NoListener == [conn |-> 0, id |-> 0]

VARIABLES
    config,           \* SpawnServerProcess::config, hook, cgroup_state
    connections,      \* SpawnServerProcess::connections
    nextConn,         \* connections created so far
    children,         \* SpawnServerConnection::children, per connection
    registry,         \* ChildProcessRegistry::children: pid -> listener
    timers,           \* pids whose kill_timeout_event is pending
    volatile_event,   \* ChildProcessRegistry::volatile_event
    sigchld_enabled,  \* whether sigchld_event is enabled
    crashed,          \* the process ended in undefined behaviour
    procs,            \* the kernel's view of each pid
    signals,          \* kill(2) calls made on each living pid
    frames,           \* datagrams the last step sent, per connection
    last,             \* what the last recvmsg() gave and its decoding did
    inbox,            \* a datagram that waits in the initial socket
    req               \* the request of the last step and what it met

vars == <<config, connections, nextConn, children, registry, timers,
          volatile_event, sigchld_enabled, crashed, procs, signals,
          frames, last, inbox, req>>

(***************************************************************************)
(* The server state as one record, and back.                               *)
(***************************************************************************)
Server ==
    [connections |-> connections, nextConn |-> nextConn,
     children |-> children, registry |-> registry, timers |-> timers,
     volatile_event |-> volatile_event, sigchld_enabled |-> sigchld_enabled,
     crashed |-> crashed, procs |-> procs, signals |-> signals,
     frames |-> [c \in Conns |-> <<>>], forked |-> {}, attempts |-> 0,
     verify |-> {}, exits |-> <<>>, cred |-> <<>>, log |-> <<>>]

\* the calls of a step, in their order, are written into S.log
Log(S, e) == [S EXCEPT !.log = Append(@, e)]

Commit(S) ==
    /\ connections' = S.connections
    /\ nextConn' = S.nextConn
    /\ children' = S.children
    /\ registry' = S.registry
    /\ timers' = S.timers
    /\ volatile_event' = S.volatile_event
    /\ sigchld_enabled' = S.sigchld_enabled
    /\ crashed' = S.crashed
    /\ procs' = S.procs
    /\ signals' = S.signals
    /\ frames' = S.frames

Restrict(f, D) == [x \in D |-> f[x]]

(***************************************************************************)
(* ChildProcessRegistry                                                    *)
(***************************************************************************)
IsEmpty(S) == DOMAIN S.registry = {}

CheckVolatileEvent(S) ==
    IF S.volatile_event /\ IsEmpty(S)
    THEN [S EXCEPT !.sigchld_enabled = FALSE]
    ELSE S

\* SetVolatile() that leaves the event alone
SetVolatileNoCheck(S) == [S EXCEPT !.volatile_event = TRUE]

SetVolatile(S) == CheckVolatileEvent([S EXCEPT !.volatile_event = TRUE])

\* Remove() without the Disable() of the entry's timer
RemoveKeepTimer(S, pid) ==
    [S EXCEPT !.registry = Restrict(@, DOMAIN @ \ {pid})]

Remove(S, pid) ==
    Log([S EXCEPT !.timers = @ \ {pid},
                  !.registry = Restrict(@, DOMAIN @ \ {pid})],
        [call |-> "Remove", pid |-> pid])

RegistryAdd(S, pid, listener) ==
    [S EXCEPT !.registry = [p \in DOMAIN @ \cup {pid} |->
                               IF p = pid THEN listener ELSE @[p]]]

\* "Send a signal to a child process and unregister it": the signal is
\* sent, the exit listener is dropped, and a SIGTERM or SIGKILL arms the
\* kill timeout.
RegistryKill(S, pid, signo) ==
    Log([S EXCEPT !.signals[pid] = Append(@, signo),
                  !.registry[pid] = NoListener,
                  !.timers = IF signo \in {SIGTERM, SIGKILL}
                             THEN @ \cup {pid} ELSE @],
        [call |-> "Kill", pid |-> pid, signo |-> signo])

\* The timer is one-shot: it is no longer pending once it has fired.
KillTimeoutCallback(S, pid) ==
    [S EXCEPT !.signals[pid] = Append(@, SIGKILL),
              !.timers = @ \ {pid}]

(***************************************************************************)
(* SpawnServerProcess and SpawnServerConnection: teardown and EXIT frames  *)
(***************************************************************************)
RECURSIVE KillAll(_, _)
\* children.clear_and_dispose(): Kill(registry, SIGTERM) for every child
\* that is linked in the map
KillAll(S, cs) ==
    IF cs = {} THEN S
    ELSE LET ch == CHOOSE x \in cs : \A y \in cs : x.id <= y.id
         IN KillAll(RegistryKill(S, ch.pid, SIGTERM), cs \ {ch})

\* a destructor that drops the children without signalling them
\* a destructor that disposes of the children of every connection
DestructorAll(S, c) ==
    [KillAll(S, UNION {S.children[b] : b \in Conns}) EXCEPT
        !.children = [b \in Conns |-> {}]]

DestructorNoKill(S, c) == [S EXCEPT !.children[c] = {}]

\* ~SpawnServerConnection()
Destructor(S, c) ==
    [KillAll(S, S.children[c]) EXCEPT !.children[c] = {}]

Quit(S) == SetVolatile(S)

\* SpawnServerProcess::RemoveConnection()
RemoveConnection(S, c) ==
    LET S0 == Log(S, [call |-> "RemoveConnection", conn |-> c])
        S1 == Destructor([S0 EXCEPT !.connections = @ \ {c}], c)
    IN IF S1.connections = {} THEN Quit(S1) ELSE S1

\* what sendmsg() and ppoll() answer during one SendExit()
SendOutcomes ==
    {[first |-> "ok", poll |-> FALSE, second |-> FALSE],
     [first |-> "error", poll |-> FALSE, second |-> FALSE],
     [first |-> "EAGAIN", poll |-> FALSE, second |-> FALSE],
     [first |-> "EAGAIN", poll |-> TRUE, second |-> FALSE],
     [first |-> "EAGAIN", poll |-> TRUE, second |-> TRUE]}

SendSucceeds(out) ==
    \/ out.first = "ok"
    \/ out.first = "EAGAIN" /\ out.poll /\ out.second

\* a second send after any failure of the first
SendAttemptsRetryAlways(out) ==
    IF out.first # "ok" THEN 2 ELSE 1

SendAttempts(out) ==
    IF out.first = "EAGAIN" /\ out.poll THEN 2 ELSE 1

ExitFrame(id, status) == [cmd |-> "EXIT", id |-> id, status |-> status]
CgroupsFrame == [cmd |-> "CGROUPS_AVAILABLE", id |-> 0, status |-> 0]

\* a SendExit() that sends nothing
SendExitNever(S, c, id, status, out) == S

\* SpawnServerConnection::SendExit()
SendExit(S, c, id, status, out) ==
    LET S0 == Log(S, [call |-> "SendExit", conn |-> c, id |-> id,
                      status |-> status, sent |-> SendSucceeds(out),
                      held |-> {ch.pid : ch \in {x \in S.children[c] :
                                                    x.id = id}}])
        S1 == [S0 EXCEPT !.attempts = SendAttempts(out),
                         !.exits = Append(@, [conn |-> c, id |-> id,
                                              status |-> status])]
    IN IF SendSucceeds(out)
       THEN [S1 EXCEPT !.frames[c] = Append(@, ExitFrame(id, status))]
       ELSE RemoveConnection(S1, c)

(***************************************************************************)
(* The reap loop                                                           *)
(***************************************************************************)
Linked(S, c, id, pid) == [id |-> id, pid |-> pid] \in S.children[c]

\* SpawnServerConnection::OnChildProcessExit() for a child that is linked
\* in the map of its connection
OnChildProcessExit(S, c, id, pid, status, out) ==
    SendExit([S EXCEPT !.children[c] = @ \ {[id |-> id, pid |-> pid]}],
             c, id, status, out)

\* The listener is a SpawnServerChild that is not linked in the map of its
\* connection (its insert() found the id taken), or whose connection has
\* been destroyed: children.erase(iterator_to(*child)) is undefined.
\* Either the process dies there, or the erase changes nothing that is
\* visible and the handler goes on.
OnChildProcessExitUnlinked(S, c, id, status, out, ub) ==
    IF ub = "crash" THEN [S EXCEPT !.crashed = TRUE]
    ELSE IF c \in S.connections THEN SendExit(S, c, id, status, out)
    ELSE S

\* ChildProcessRegistry::OnExit(): the listener, then Remove()
RegistryOnExit(S, pid, status, out, ub) ==
    IF pid \notin DOMAIN S.registry THEN S
    ELSE LET l == S.registry[pid]
             S0 == Log(S, [call |-> "OnChildProcessExit", pid |-> pid,
                           conn |-> l.conn, id |-> l.id, status |-> status])
             S1 == IF l = NoListener THEN S
                   ELSE IF l.conn \in S.connections
                           /\ Linked(S, l.conn, l.id, pid)
                   THEN OnChildProcessExit(S0, l.conn, l.id, pid, status, out)
                   ELSE OnChildProcessExitUnlinked(S0, l.conn, l.id, status,
                                                   out, ub)
         IN IF S1.crashed THEN S1 ELSE Remove(S1, pid)

\* the kernel forgets a process that was waited for
Reaped == [state |-> "reaped", status |-> 0, conn |-> 0, id |-> 0]

RECURSIVE ReapLoop(_, _, _, _)
\* while (wait4(-1, WNOHANG) > 0) OnExit(pid, status)
ReapLoop(S, order, outs, ub) ==
    IF order = <<>> \/ S.crashed THEN S
    ELSE LET pid == Head(order)
             S1 == Log([S EXCEPT !.procs[pid] = Reaped,
                                 !.signals[pid] = <<>>],
                       [call |-> "wait4", pid |-> pid,
                        status |-> S.procs[pid].status,
                        listener |-> IF pid \in DOMAIN S.registry
                                     THEN <<S.registry[pid]>> ELSE <<>>,
                        timer |-> pid \in S.timers])
         IN ReapLoop(RegistryOnExit(S1, pid, S.procs[pid].status,
                                    outs[pid], ub),
                     Tail(order), outs, ub)

\* ChildProcessRegistry::OnSigChld()
OnSigChld(S, order, outs, ub) ==
    LET S1 == ReapLoop(S, order, outs, ub)
    IN IF S1.crashed THEN S1 ELSE CheckVolatileEvent(S1)

(***************************************************************************)
(* The received fds (SpawnFdList) and the EXEC decoder                     *)
(*                                                                         *)
(* A payload is the sequence of its fields: a command tag, an int, a       *)
(* string or a byte each take one place.  The fds that came with the       *)
(* datagram are numbered 1..nfds in the order of the SCM_RIGHTS message.   *)
(* A decoder state D holds the PreparedChildProcess p being built, the     *)
(* fields not yet read, the SpawnFdList, how often close() was called on   *)
(* each received fd, how many fds Get() handed out, whether                *)
(* MalformedSpawnPayloadError was thrown, and whether every open fd had    *)
(* exactly one owner after every step.                                     *)
(***************************************************************************)
EmptyUidGid == [uid |-> 0, gid |-> 0, groups |-> <<>>]

\* UidGid::IsEmpty()
UidGidIsEmpty(u) == u = EmptyUidGid

FdSlots == {"stdin_fd", "stdout_fd", "stderr_fd", "control_fd"}

\* PreparedChildProcess()
NewPrepared ==
    [args |-> <<>>, stdin_fd |-> -1, stdout_fd |-> -1, stderr_fd |-> -1,
     control_fd |-> -1, tty |-> FALSE, uid_gid |-> EmptyUidGid,
     ns_mounts |-> 0, cgroup_set_head |-> 0]

SlotFds(p) == {p[s] : s \in FdSlots} \ {-1}

Range(q) == {q[i] : i \in DOMAIN q}

NewDecoder(payload, nfds) ==
    [p |-> NewPrepared, payload |-> payload,
     list |-> [i \in 1..nfds |-> i],
     closes |-> [i \in 1..nfds |-> 0],
     taken |-> 0, ok |-> TRUE, why |-> "none", unknown |-> FALSE,
     owned |-> TRUE, mounts |-> <<>>, mount_tail |-> 0,
     cgroup_sets |-> <<>>]

Close(D, fd) == [D EXCEPT !.closes[fd] = @ + 1]

RECURSIVE CloseAll(_, _)
CloseAll(D, fds) ==
    IF fds = {} THEN D
    ELSE LET fd == CHOOSE x \in fds : TRUE
         IN CloseAll(Close(D, fd), fds \ {fd})

\* throw MalformedSpawnPayloadError()
Throw(D, why) == [D EXCEPT !.ok = FALSE, !.why = why]

\* SpawnFdList::Get() that leaves the fd in the list
FdListGetKeep(D) ==
    IF D.list = <<>> THEN [d |-> Throw(D, "no fd"), fd |-> -1]
    ELSE [d |-> [D EXCEPT !.taken = @ + 1], fd |-> Head(D.list)]

\* SpawnFdList::Get(): list.shift()
FdListGet(D) ==
    IF D.list = <<>> THEN [d |-> Throw(D, "no fd"), fd |-> -1]
    ELSE [d |-> [D EXCEPT !.list = Tail(@), !.taken = @ + 1],
          fd |-> Head(D.list)]

\* a destructor that forgets the list without closing its fds
FdListDestructorLeak(D) == [D EXCEPT !.list = <<>>]

\* ~SpawnFdList(): close every fd still in the list
FdListDestructor(D) ==
    [CloseAll(D, Range(D.list)) EXCEPT !.list = <<>>]

\* PreparedChildProcess::SetStdin() and its like: the slot takes the fd,
\* and an fd the slot held before is closed
SetFd(D, slot, fd) ==
    LET D1 == IF D.p[slot] >= 0 THEN Close(D, D.p[slot]) ELSE D
    IN [D1 EXCEPT !.p[slot] = fd]

\* ~PreparedChildProcess(): close the fd of every slot
PreparedDestructor(D) ==
    [CloseAll(D, SlotFds(D.p)) EXCEPT
        !.p.stdin_fd = -1, !.p.stdout_fd = -1,
        !.p.stderr_fd = -1, !.p.control_fd = -1]

\* every received fd that is still open is in the list or in one slot,
\* and in one place only
SingleOwner(D) ==
    \A fd \in DOMAIN D.closes :
        LET n == Cardinality({i \in DOMAIN D.list : D.list[i] = fd})
                 + Cardinality({s \in FdSlots : D.p[s] = fd})
        IN /\ D.closes[fd] <= 1
           /\ n = (IF D.closes[fd] = 0 THEN 1 ELSE 0)

\* SpawnPayload::ReadByte(), ReadInt(), ReadString(), ReadT(): the next
\* field, or MalformedSpawnPayloadError at the end of the payload
ReadField(D) ==
    IF D.payload = <<>> THEN [d |-> Throw(D, "past the end"), v |-> 0]
    ELSE [d |-> [D EXCEPT !.payload = Tail(@)], v |-> Head(D.payload)]

RECURSIVE ReadGroups(_, _)
\* for (i < n_groups) payload.ReadT(uid_gid.groups[i])
ReadGroups(D, n) ==
    IF n = 0 \/ ~D.ok THEN D
    ELSE LET r == ReadField(D)
         IN IF ~r.d.ok THEN r.d
            ELSE ReadGroups([r.d EXCEPT !.p.uid_gid.groups = Append(@, r.v)],
                            n - 1)

\* Read(SpawnPayload &, UidGid &)
ReadUidGid(D) ==
    LET u == ReadField(D)
        g == ReadField(u.d)
        n == ReadField(g.d)
    IN IF ~n.d.ok THEN n.d
       ELSE IF n.v > GroupsMaxSize THEN Throw(n.d, "groups")
       ELSE ReadGroups([n.d EXCEPT !.p.uid_gid =
                           [uid |-> u.v, gid |-> g.v, groups |-> <<>>]], n.v)

\* A pointer to a MountList or to a SetItem is the position of the node in
\* the forward_list that holds it (mounts, cgroup_sets), in the order of
\* their making, and 0 is nullptr.  mount_tail is 0 while it points to
\* p.ns.mounts, and n when it points to the next of node n.

\* a link that puts the new node n before the head of the chain
LinkMountAtHead(D, n) ==
    [D EXCEPT !.mounts[n].next = D.p.ns_mounts, !.p.ns_mounts = n]

\* *mount_tail = &mounts.front(); mount_tail = &mounts.front().next
LinkMount(D, n) ==
    LET D1 == IF D.mount_tail = 0 THEN [D EXCEPT !.p.ns_mounts = n]
              ELSE [D EXCEPT !.mounts[D.mount_tail].next = n]
    IN [D1 EXCEPT !.mount_tail = n]

\* case SpawnExecCommand::BIND_MOUNT
ReadBindMount(D) ==
    LET s == ReadField(D)
        t == ReadField(s.d)
        w == ReadField(t.d)
        e == ReadField(w.d)
    IN IF ~e.d.ok THEN e.d
       ELSE LinkMount([e.d EXCEPT !.mounts =
                          Append(@, [source |-> s.v, target |-> t.v,
                                     writable |-> w.v # 0, exec |-> e.v # 0,
                                     next |-> 0])],
                      Len(e.d.mounts) + 1)

\* case SpawnExecCommand::CGROUP_SET: set.next = p.cgroup.set_head;
\* p.cgroup.set_head = &set
ReadCgroupSet(D) ==
    LET n == ReadField(D)
        v == ReadField(n.d)
    IN IF ~v.d.ok THEN v.d
       ELSE [v.d EXCEPT !.cgroup_sets =
                           Append(@, [name |-> n.v, value |-> v.v,
                                      next |-> v.d.p.cgroup_set_head]),
                        !.p.cgroup_set_head = Len(v.d.cgroup_sets) + 1]

RECURSIVE MountChainFrom(_, _, _)
\* the mounts from pointer ptr on, following next at most fuel times
MountChainFrom(D, ptr, fuel) ==
    IF ptr = 0 \/ fuel = 0 THEN <<>>
    ELSE LET m == D.mounts[ptr]
         IN <<[cmd |-> "BIND_MOUNT", source |-> m.source,
               target |-> m.target, writable |-> m.writable,
               exec |-> m.exec]>>
            \o MountChainFrom(D, m.next, fuel - 1)

\* p.ns.mounts, followed through next
MountChain(D) == MountChainFrom(D, D.p.ns_mounts, Len(D.mounts))

RECURSIVE CgroupSetChainFrom(_, _, _)
CgroupSetChainFrom(D, ptr, fuel) ==
    IF ptr = 0 \/ fuel = 0 THEN <<>>
    ELSE LET i == D.cgroup_sets[ptr]
         IN <<[cmd |-> "CGROUP_SET", name |-> i.name, value |-> i.value]>>
            \o CgroupSetChainFrom(D, i.next, fuel - 1)

\* p.cgroup.set_head, followed through next
CgroupSetChain(D) ==
    CgroupSetChainFrom(D, D.p.cgroup_set_head, Len(D.cgroup_sets))

\* The tags the switch of HandleExecMessage() has a case for (those of the
\* sub-commands modelled here); byte b is the tag ExecCommandNames[b], and
\* a byte outside 1..Len(ExecCommandNames) is no SpawnExecCommand.
ExecCommandNames ==
    <<"ARG", "STDIN", "STDOUT", "STDERR", "CONTROL", "TTY", "UID_GID",
      "BIND_MOUNT", "CGROUP_SET">>

Tag(name) ==
    CHOOSE b \in DOMAIN ExecCommandNames : ExecCommandNames[b] = name

IsExecCommand(b) == b \in DOMAIN ExecCommandNames

FdCommands == {"STDIN", "STDOUT", "STDERR", "CONTROL"}

SlotOf(cmd) ==
    CASE cmd = "STDIN" -> "stdin_fd"
      [] cmd = "STDOUT" -> "stdout_fd"
      [] cmd = "STDERR" -> "stderr_fd"
      [] cmd = "CONTROL" -> "control_fd"

\* one round of the while loop of HandleExecMessage(): the tag, then the
\* case of the switch; a tag without a case falls through the switch
ExecStep(D) ==
    LET t == ReadField(D)
        cmd == IF IsExecCommand(t.v) THEN ExecCommandNames[t.v] ELSE "none"
        D1 == t.d
    IN CASE cmd = "ARG" ->
              LET r == ReadField(D1)
              IN IF ~r.d.ok THEN r.d
                 ELSE [r.d EXCEPT !.p.args = Append(@, r.v)]
         [] cmd \in FdCommands ->
              LET g == FdListGet(D1)
              IN IF ~g.d.ok THEN g.d ELSE SetFd(g.d, SlotOf(cmd), g.fd)
         [] cmd = "TTY" -> [D1 EXCEPT !.p.tty = TRUE]
         [] cmd = "UID_GID" -> ReadUidGid(D1)
         [] cmd = "BIND_MOUNT" -> ReadBindMount(D1)
         [] cmd = "CGROUP_SET" -> ReadCgroupSet(D1)
         [] OTHER -> [D1 EXCEPT !.unknown = TRUE]

RECURSIVE ExecLoop(_)
\* while (!payload.IsEmpty())
ExecLoop(D) ==
    IF ~D.ok \/ D.payload = <<>> THEN D
    ELSE LET D1 == ExecStep(D)
         IN ExecLoop([D1 EXCEPT !.owned = @ /\ (~D1.ok \/ SingleOwner(D1))])

\* HandleExecMessage() up to the call of SpawnChild(): id, name and the
\* sub-commands
ExecDecode(payload, nfds) ==
    LET i == ReadField(NewDecoder(payload, nfds))
        n == ReadField(i.d)
    IN IF ~n.d.ok THEN [d |-> n.d, id |-> 0]
       ELSE [d |-> ExecLoop(n.d), id |-> i.v]

(***************************************************************************)
(* SpawnChild() and the three request handlers                             *)
(***************************************************************************)
\* what the hook, the configuration and SpawnChildProcess() answer
SpawnOutcomes ==
    [hook : {"true", "false", "throw"}, config_ok : BOOLEAN, fork : BOOLEAN]

\* process.Verify(p): hook != nullptr && hook->Verify(p)
ProcessVerify(env) == config.hook /\ env.hook = "true"

\* the try block of SpawnChild(): whether Verify() of the hook or of the
\* configuration throws
VerifyThrows(env) ==
    \/ config.hook /\ env.hook = "throw"
    \/ ~ProcessVerify(env) /\ ~env.config_ok

\* the Verify() calls of the try block: none for a request without
\* uid/gid; else the hook's if there is a hook, and the configuration's if
\* there is no hook or the hook returned false
VerifyCalls(p, env) ==
    IF UidGidIsEmpty(p.uid_gid) THEN {}
    ELSE IF ~config.hook THEN {"config"}
    ELSE IF env.hook = "false" THEN {"hook", "config"}
    ELSE {"hook"}

\* config.default_uid_gid, when the configuration has one
DefaultUidGid == [uid |-> 2, gid |-> 2, groups |-> <<>>]

ConfigDefaultUidGid ==
    IF config.default_uid_gid THEN DefaultUidGid ELSE EmptyUidGid

\* the uid/gid of the request, without the default
EffectiveUidGidRequest(p) == p.uid_gid

\* if (p.uid_gid.IsEmpty()) p.uid_gid = config.default_uid_gid
EffectiveUidGid(p) ==
    IF UidGidIsEmpty(p.uid_gid) THEN ConfigDefaultUidGid ELSE p.uid_gid

Unborn(S) == {pid \in Pids : S.procs[pid].state = "unborn"}

\* SpawnChildProcess() succeeded: the kernel made a new process
Fork(S, c, id) ==
    LET pid == CHOOSE x \in Unborn(S) : \A y \in Unborn(S) : x <= y
    IN [S EXCEPT !.procs[pid] = [state |-> "running", status |-> 0,
                                 conn |-> c, id |-> id],
                 !.forked = @ \cup {pid}]

\* an insert that takes every child, as a multiset would
ChildIdMapInsertMulti(S, c, id, pid) ==
    [S EXCEPT !.children[c] = @ \cup {[id |-> id, pid |-> pid]}]

\* children.insert(*child): the set is keyed by id, and an id that is
\* already in it keeps its old entry
ChildIdMapInsert(S, c, id, pid) ==
    IF \E ch \in S.children[c] : ch.id = id THEN S
    ELSE [S EXCEPT !.children[c] = @ \cup {[id |-> id, pid |-> pid]}]

\* SpawnServerConnection::SpawnChild()
SpawnChild(S, c, id, p, env, out) ==
    LET S0 == [S EXCEPT !.verify = VerifyCalls(p, env)]
        S2 == [S0 EXCEPT !.cred = <<EffectiveUidGid(p)>>]
    IN IF ~UidGidIsEmpty(p.uid_gid) /\ VerifyThrows(env)
       THEN SendExit(S0, c, id, ExitFailure, out)
       ELSE IF UidGidIsEmpty(p.uid_gid) /\ ~config.default_uid_gid
       THEN SendExit(S0, c, id, ExitFailure, out)
       ELSE IF ~env.fork \/ Unborn(S) = {}
       THEN SendExit(S2, c, id, ExitFailure, out)
       ELSE LET S1 == Fork(S2, c, id)
                pid == CHOOSE x \in S1.forked : TRUE
            IN RegistryAdd(ChildIdMapInsert(S1, c, id, pid), pid,
                           [conn |-> c, id |-> id])

\* what a handler did, besides the new server state s
Handled(S, D, malformed, spawned, id) ==
    [s |-> S, malformed |-> malformed, spawned |-> spawned, id |-> id,
     why |-> D.why, unknown |-> D.unknown, closes |-> D.closes,
     taken |-> D.taken, owned |-> D.owned, p |-> D.p,
     mounts |-> MountChain(D), cgroup_sets |-> CgroupSetChain(D)]

\* HandleExecMessage(), and the destructors of p and of the received fds
\* that run when it returns or throws
HandleExecMessage(S, c, payload, nfds, env, out) ==
    LET r == ExecDecode(payload, nfds)
        D == FdListDestructor(PreparedDestructor(r.d))
    IN IF ~r.d.ok
       THEN Handled(S, D, TRUE, FALSE, r.id)
       ELSE Handled(SpawnChild(S, c, r.id, r.d.p, env, out),
                    [D EXCEPT !.p = r.d.p], FALSE, TRUE, r.id)

\* a KILL handler that answers an id it does not know with an EXIT frame
HandleKillMessageReply(S, c, payload, nfds) ==
    LET D0 == NewDecoder(payload, nfds)
        i == ReadField(D0)
        g == ReadField(i.d)
        D == FdListDestructor(D0)
        found == {ch \in S.children[c] : ch.id = i.v}
    IN IF nfds # 0 \/ ~g.d.ok \/ g.d.payload # <<>>
       THEN Handled(S, [D EXCEPT !.why = "fds"], TRUE, FALSE, 0)
       ELSE IF found = {}
       THEN Handled([S EXCEPT !.frames[c] = Append(@, ExitFrame(i.v, ExitFailure))],
                    D, FALSE, FALSE, i.v)
       ELSE LET ch == CHOOSE x \in found : TRUE
            IN Handled(RegistryKill([S EXCEPT !.children[c] = @ \ {ch}],
                                    ch.pid, g.v),
                       D, FALSE, FALSE, i.v)

\* HandleKillMessage()
\* a KILL that leaves the child in the map unless the signal is one that
\* ends a process
HandleKillMessageKeep(S, c, payload, nfds) ==
    LET D0 == NewDecoder(payload, nfds)
        i == ReadField(D0)
        g == ReadField(i.d)
        D == FdListDestructor(D0)
        found == {ch \in S.children[c] : ch.id = i.v}
    IN IF nfds # 0 \/ ~g.d.ok \/ g.d.payload # <<>>
       THEN Handled(S, [D EXCEPT !.why = IF nfds # 0 THEN "fds"
                                          ELSE IF ~g.d.ok THEN "past the end"
                                          ELSE "trailing"],
                    TRUE, FALSE, 0)
       ELSE IF found = {}
       THEN Handled(S, D, FALSE, FALSE, i.v)
       ELSE LET ch == CHOOSE x \in found : TRUE
                S1 == IF g.v \in {SIGTERM, SIGKILL}
                      THEN [S EXCEPT !.children[c] = @ \ {ch}]
                      ELSE S
            IN Handled([RegistryKill(S1, ch.pid, g.v) EXCEPT
                            !.registry[ch.pid] =
                                IF g.v \in {SIGTERM, SIGKILL}
                                THEN NoListener ELSE S.registry[ch.pid]],
                       D, FALSE, FALSE, i.v)

HandleKillMessage(S, c, payload, nfds) ==
    LET D0 == NewDecoder(payload, nfds)
        i == ReadField(D0)
        g == ReadField(i.d)
        D == FdListDestructor(D0)
        found == {ch \in S.children[c] : ch.id = i.v}
    IN IF nfds # 0 \/ ~g.d.ok \/ g.d.payload # <<>>
       THEN Handled(S, [D EXCEPT !.why = IF nfds # 0 THEN "fds"
                                          ELSE IF ~g.d.ok THEN "past the end"
                                          ELSE "trailing"],
                    TRUE, FALSE, 0)
       ELSE IF found = {}
       THEN Handled(S, D, FALSE, FALSE, i.v)
       ELSE LET ch == CHOOSE x \in found : TRUE
            IN Handled(RegistryKill([S EXCEPT !.children[c] = @ \ {ch}],
                                    ch.pid, g.v),
                       D, FALSE, FALSE, i.v)

\* an AddConnection() that greets the new connection
AddConnectionCgroups(S) ==
    LET c == S.nextConn + 1
    IN [S EXCEPT !.nextConn = c, !.connections = @ \cup {c},
                 !.frames[c] = Append(@, CgroupsFrame)]

\* SpawnServerProcess::AddConnection()
AddConnection(S) ==
    LET c == S.nextConn + 1
    IN [S EXCEPT !.nextConn = c, !.connections = @ \cup {c}]

\* a CONNECT case that takes the first of any number of fds
HandleConnectMessageAnyFds(S, payload, nfds) ==
    LET D0 == NewDecoder(payload, nfds)
    IN IF payload # <<>> \/ nfds = 0
       THEN Handled(S, [FdListDestructor(D0) EXCEPT !.why = "connect"],
                    TRUE, FALSE, 0)
       ELSE Handled(AddConnection(S), FdListDestructor(FdListGet(D0).d),
                    FALSE, FALSE, 0)

\* HandleMessage(payload, fds): the CONNECT case
HandleConnectMessage(S, payload, nfds) ==
    LET D0 == NewDecoder(payload, nfds)
    IN IF payload # <<>> \/ nfds # 1
       THEN Handled(S, [FdListDestructor(D0) EXCEPT !.why = "connect"],
                    TRUE, FALSE, 0)
       ELSE Handled(AddConnection(S), FdListDestructor(FdListGet(D0).d),
                    FALSE, FALSE, 0)

RequestCommands == {"CONNECT", "EXEC", "KILL"}

\* HandleMessage(msg, payload) and HandleMessage(payload, fds); a command
\* byte without a case leaves the switch, and the received fds are closed
HandleMessage(S, c, dgram, env, out) ==
    CASE dgram.cmd = "CONNECT" ->
            HandleConnectMessage(S, dgram.payload, dgram.nfds)
      [] dgram.cmd = "EXEC" ->
            HandleExecMessage(S, c, dgram.payload, dgram.nfds, env, out)
      [] dgram.cmd = "KILL" ->
            HandleKillMessage(S, c, dgram.payload, dgram.nfds)
      [] OTHER ->
            Handled(S, FdListDestructor(NewDecoder(dgram.payload, dgram.nfds)),
                    FALSE, FALSE, 0)

\* what recvmsg() answers when it returns no datagram
RecvFailures == {"zero", "EAGAIN", "ECONNRESET"}

\* ReadEventCallback() when recvmsg() returned nbytes <= 0
ReadEventFailure(S, c, why) == RemoveConnection(S, c)

\* a handler without the catch: the error ends the connection
ReadEventCallbackNoCatch(S, c, dgram, env, out) ==
    LET h == HandleMessage(S, c, dgram, env, out)
    IN IF h.malformed THEN [h EXCEPT !.s = RemoveConnection(h.s, c)] ELSE h

\* ReadEventCallback() when recvmsg() returned a datagram; the
\* MalformedSpawnPayloadError is caught and logged
ReadEventCallback(S, c, dgram, env, out) ==
    HandleMessage(S, c, dgram, env, out)

(***************************************************************************)
(* The state on entering the event loop, and the actions                   *)
(***************************************************************************)
Configs == [hook : BOOLEAN, default_uid_gid : BOOLEAN, cgroups : BOOLEAN]

\* the configurations of the server runs
MainConfigs ==
    {[hook |-> TRUE, default_uid_gid |-> TRUE, cgroups |-> TRUE]}

\* no datagram was decoded in the last step
NoLast ==
    [conn |-> 0, cmd |-> "none", len |-> 0, malformed |-> FALSE, why |-> "none",
     unknown |-> FALSE, spawned |-> FALSE, nfds |-> 0, closes |-> <<>>,
     taken |-> 0, owned |-> TRUE, p |-> NewPrepared, mounts |-> <<>>,
     cgroup_sets |-> <<>>]

\* RunSpawnServer(): CGROUPS_AVAILABLE if the cgroup state is enabled,
\* then the SpawnServerProcess with the initial connection
InitConfig(configs) ==
    /\ config \in configs
    /\ connections = {1}
    /\ nextConn = 1
    /\ children = [c \in Conns |-> {}]
    /\ registry = <<>>
    /\ timers = {}
    /\ volatile_event = FALSE
    /\ sigchld_enabled = TRUE
    /\ crashed = FALSE
    /\ procs = [pid \in Pids |->
                   [state |-> "unborn", status |-> 0, conn |-> 0, id |-> 0]]
    /\ signals = [pid \in Pids |-> <<>>]
    /\ frames = [c \in Conns |->
                    IF c = 1 /\ config.cgroups THEN <<CgroupsFrame>> ELSE <<>>]
    /\ last = NoLast

InitServer == InitConfig(MainConfigs)

NoDatagram == [cmd |-> "none", payload |-> <<>>, nfds |-> 0]

\* no request is examined
\* a request as the client holds it before it is serialized: the fields
\* of a PreparedChildProcess, with the two chains as sequences
NoOriginal ==
    [args |-> <<>>, tty |-> FALSE, uid_gid |-> EmptyUidGid,
     mounts |-> <<>>, cgroup_sets |-> <<>>]

\* no part of the spawner besides the server is looked at
NoUnit == [kind |-> "none"]

\* no datagram is on the wire
NoWire == [phase |-> "idle", size |-> 0, nfds |-> 0, nbytes |-> 0, rfds |-> 0]

NoReq ==
    [conn |-> 0, id |-> 0,
     env |-> [hook |-> "true", config_ok |-> TRUE, fork |-> TRUE],
     out |-> [first |-> "ok", poll |-> FALSE, second |-> FALSE],
     verify |-> {}, attempts |-> 0, exits |-> <<>>, cred |-> <<>>,
     forked |-> {}, items |-> <<>>, wire |-> NoWire, orig |-> NoOriginal,
     unit |-> NoUnit, log |-> <<>>]

Init == InitServer /\ inbox = NoDatagram /\ req = NoReq

Seqs(S, n) == UNION {[1..k -> S] : k \in 0..n}

\* the bytes of a payload
Bytes == 0..Len(ExecCommandNames)

\* the EXEC payloads of the server runs: id, name and one of a few
\* sub-command streams, or a payload that ends before the name
MainTails == {<<Tag("UID_GID"), 1, 1, 0>>}

\* the answers of the environment in the server runs
MainSpawnOutcomes ==
    {[hook |-> "true", config_ok |-> TRUE, fork |-> TRUE],
     [hook |-> "throw", config_ok |-> TRUE, fork |-> TRUE]}

MainSendOutcomes == {o \in SendOutcomes : o.first # "EAGAIN"}

MainExecPayloads == {<<id, 1>> \o t : id \in Ids, t \in MainTails}

\* the well-formed KILL datagrams
MainKillDatagrams ==
    {[cmd |-> "KILL", payload |-> <<id, signo>>, nfds |-> 0] :
        id \in Ids, signo \in KillSignos}

\* one KILL datagram of each malformed kind
MalformedKillDatagrams ==
    {[cmd |-> "KILL", payload |-> <<1>>, nfds |-> 0],
     [cmd |-> "KILL", payload |-> <<1, SIGTERM, 0>>, nfds |-> 0],
     [cmd |-> "KILL", payload |-> <<1, SIGTERM>>, nfds |-> 1]}

\* the well-formed CONNECT datagram
MainConnectDatagrams == {[cmd |-> "CONNECT", payload |-> <<>>, nfds |-> 1]}

ConnectDatagrams ==
    {[cmd |-> "CONNECT", payload |-> <<>>, nfds |-> n] : n \in 0..2}
    \cup {[cmd |-> "CONNECT", payload |-> <<0>>, nfds |-> 1]}

\* the record of connection c decoding dgram, which handler result h
\* describes
Event(c, dgram, h) ==
    [conn |-> c, cmd |-> dgram.cmd, len |-> Len(dgram.payload),
     malformed |-> h.malformed, why |-> h.why,
     unknown |-> h.unknown, spawned |-> h.spawned, nfds |-> dgram.nfds,
     closes |-> h.closes, taken |-> h.taken, owned |-> h.owned, p |-> h.p,
     mounts |-> h.mounts, cgroup_sets |-> h.cgroup_sets]

\* the event loop runs, and no datagram is held back
Running == ~crashed /\ inbox = NoDatagram

\* the request that handler result h answers, and what it met
RequestOf(c, env, out, h) ==
    [conn |-> c, id |-> h.id, env |-> env, out |-> out,
     verify |-> h.s.verify, attempts |-> h.s.attempts, exits |-> h.s.exits,
     cred |-> h.s.cred, forked |-> h.s.forked, items |-> req.items,
     wire |-> req.wire, orig |-> req.orig, unit |-> req.unit,
     log |-> <<>>]

\* a connection's socket is readable and recvmsg() returns a datagram;
\* the request is kept for examination if keep says so
ReadEventAs(c, dgram, env, out, keep) ==
    \E h \in {ReadEventCallback(Server, c, dgram, env, out)} :
       /\ Commit(h.s)
       /\ last' = Event(c, dgram, h)
       /\ inbox' = NoDatagram
       /\ req' = IF keep THEN RequestOf(c, env, out, h) ELSE NoReq
       /\ UNCHANGED <<config>>

ReadEvent(c, dgram, env, out) == ReadEventAs(c, dgram, env, out, FALSE)

ExecMessage(payloads, maxfds, envs, outs) ==
    \E c \in connections, payload \in payloads, nfds \in 0..maxfds,
       env \in envs, out \in outs :
        /\ Running
        /\ ReadEvent(c, [cmd |-> "EXEC", payload |-> payload, nfds |-> nfds],
                     env, out)

KillMessage(dgrams) ==
    \E c \in connections, dgram \in dgrams :
        /\ Running
        /\ ReadEvent(c, dgram,
                     CHOOSE e \in SpawnOutcomes : TRUE,
                     CHOOSE o \in SendOutcomes : TRUE)

ConnectMessage(dgrams) ==
    \E c \in connections, dgram \in dgrams :
        /\ Running
        /\ nextConn < MaxConns
        /\ ReadEvent(c, dgram,
                     CHOOSE e \in SpawnOutcomes : TRUE,
                     CHOOSE o \in SendOutcomes : TRUE)

\* a connection's socket is readable and recvmsg() returns 0 or -1
ReadFailure ==
    \E c \in connections, why \in RecvFailures :
        /\ Running
        /\ Commit(ReadEventFailure(Server, c, why))
        /\ last' = [NoLast EXCEPT !.cmd = why, !.conn = c]
        /\ req' = NoReq
        /\ UNCHANGED <<config, inbox>>

\* the status of a child that ends: it exits with 0, or dies of the last
\* signal it was sent
ExitStatuses(pid) ==
    {0} \cup (IF signals[pid] = <<>> THEN {}
              ELSE {signals[pid][Len(signals[pid])]})

\* a child ends by itself or by a signal it was sent, and waits to be reaped
ChildExit ==
    \E pid \in Pids :
        /\ procs[pid].state = "running"
        /\ \E st \in ExitStatuses(pid) :
              procs' = [procs EXCEPT ![pid].state = "zombie",
                                     ![pid].status = st]
        /\ last' = NoLast
        /\ req' = NoReq
        /\ frames' = [c \in Conns |-> <<>>]
        /\ UNCHANGED <<config, connections, nextConn, children, registry,
                       timers, volatile_event, sigchld_enabled, crashed,
                       signals, inbox>>

Zombies == {pid \in Pids : procs[pid].state = "zombie"}

Orders(P) ==
    {q \in [1..Cardinality(P) -> P] : \A i, j \in DOMAIN q : i # j => q[i] # q[j]}

\* SIGCHLD is dispatched: every child that waits is reaped, in the order
\* wait4() names them
SigChld(sendOutcomes) ==
    \E order \in Orders(Zombies), outs \in [Zombies -> sendOutcomes],
       ub \in {"crash", "continue"} :
        /\ Running
        /\ sigchld_enabled
        /\ Zombies # {}
        /\ \E S \in {OnSigChld(Server, order, outs, ub)} :
              /\ Commit(S)
              /\ last' = NoLast
        /\ req' = NoReq
        /\ UNCHANGED <<config, inbox>>

\* the kill timeout of a registered child expires
KillTimeout ==
    \E pid \in timers :
        /\ Running
        /\ Commit(KillTimeoutCallback(Server, pid))
        /\ last' = NoLast
        /\ req' = NoReq
        /\ UNCHANGED <<config, inbox>>

Next ==
    \/ ExecMessage(MainExecPayloads, 0, MainSpawnOutcomes, MainSendOutcomes)
    \/ KillMessage(MainKillDatagrams)
    \/ ConnectMessage(MainConnectDatagrams)
    \/ ReadFailure
    \/ ChildExit
    \/ SigChld(MainSendOutcomes)
    \/ KillTimeout

Spec == Init /\ [][Next]_vars

(***************************************************************************)
(* The shutdown runs: the server runs with one request id, one KILL signal *)
(* and sends that succeed at once or fail, in which every child ends at    *)
(* some time and the event loop dispatches a pending SIGCHLD.              *)
(***************************************************************************)
LiveExecPayloads == {<<1, 1>> \o t : t \in MainTails}

LiveSpawnOutcomes == {[hook |-> "true", config_ok |-> TRUE, fork |-> TRUE]}

LiveKillDatagrams ==
    {[cmd |-> "KILL", payload |-> <<1, SIGUSR1>>, nfds |-> 0]}

NextLive ==
    \/ ExecMessage(LiveExecPayloads, 0, LiveSpawnOutcomes, MainSendOutcomes)
    \/ KillMessage(LiveKillDatagrams)
    \/ ConnectMessage(MainConnectDatagrams)
    \/ ReadFailure
    \/ ChildExit
    \/ SigChld(MainSendOutcomes)
    \/ KillTimeout

SpecLive ==
    /\ Init /\ [][NextLive]_vars
    /\ WF_vars(ChildExit)
    /\ WF_vars(SigChld(MainSendOutcomes))

(***************************************************************************)
(* The decoder runs: the server starts with a datagram in the socket of    *)
(* the initial connection, any EXEC payload up to MaxTail sub-command      *)
(* bytes with up to MaxFds fds or any KILL, CONNECT or other datagram,     *)
(* handles it, and goes on with well-formed datagrams.                     *)
(***************************************************************************)
DecodeExecPayloads ==
    {<<>>, <<1>>} \cup {<<1, 1>> \o t : t \in Seqs(Bytes, MaxTail)}

\* a datagram whose first byte is no SpawnRequestCommand
OtherDatagrams ==
    {[cmd |-> "OTHER", payload |-> <<>>, nfds |-> n] : n \in 0..MaxFds}

DecodeDatagrams ==
    {[cmd |-> "EXEC", payload |-> pl, nfds |-> n] :
        pl \in DecodeExecPayloads, n \in 0..MaxFds}
    \cup MainKillDatagrams \cup MalformedKillDatagrams \cup ConnectDatagrams
    \cup OtherDatagrams

DecodeSpawnOutcomes ==
    {[hook |-> "true", config_ok |-> TRUE, fork |-> TRUE],
     [hook |-> "throw", config_ok |-> TRUE, fork |-> TRUE]}

DecodeSendOutcomes == {o \in SendOutcomes : o.first = "ok"}

InitDecode == InitServer /\ inbox \in DecodeDatagrams /\ req = NoReq

\* the initial connection's socket is readable: the waiting datagram
Deliver ==
    \E env \in DecodeSpawnOutcomes, out \in DecodeSendOutcomes :
        /\ ~crashed
        /\ inbox # NoDatagram
        /\ ReadEventAs(1, inbox, env, out, TRUE)

NextDecode ==
    \/ Deliver
    \/ ExecMessage(MainExecPayloads, 0, DecodeSpawnOutcomes,
                   DecodeSendOutcomes)
    \/ KillMessage(MainKillDatagrams)
    \/ ConnectMessage(MainConnectDatagrams)

SpecDecode == InitDecode /\ [][NextDecode]_vars

(***************************************************************************)
(* The spawn runs: a server of any configuration gets EXEC requests with   *)
(* and without uid/gid, the hook, the configuration, SpawnChildProcess()   *)
(* and the sends answer in every way, and each request is kept with what   *)
(* it met.  The requests use one id: a second child of a connection is    *)
(* one with an id that is taken.                                           *)
(***************************************************************************)
SpawnExecPayloads ==
    {<<1, 1>> \o t : t \in {<<>>} \cup MainTails}

InitSpawn == InitConfig(Configs) /\ inbox = NoDatagram /\ req = NoReq

SpawnRequest(envs, outs) ==
    \E c \in connections, payload \in SpawnExecPayloads,
       env \in envs, out \in outs :
        /\ Running
        /\ ReadEventAs(c, [cmd |-> "EXEC", payload |-> payload, nfds |-> 0],
                       env, out, TRUE)

\* SpawnChildProcess() throws
SpawnFails == {[hook |-> "true", config_ok |-> TRUE, fork |-> FALSE]}

\* every answer to the request with a send that succeeds, and every
\* answer of the send to a request that fails
NextSpawn ==
    \/ SpawnRequest(SpawnOutcomes, DecodeSendOutcomes)
    \/ SpawnRequest(SpawnFails, SendOutcomes)
    \/ ConnectMessage(MainConnectDatagrams)

SpecSpawn == InitSpawn /\ [][NextSpawn]_vars

(***************************************************************************)
(* The size of a datagram: the client builds a request in a                *)
(* SpawnSerializer and sends its buffer and its fds in one datagram; the   *)
(* server's recvmsg() receives it into the buffers of ReadEventCallback(). *)
(* req.wire holds the size and the fds of the datagram and what recvmsg()  *)
(* returned of them.                                                       *)
(***************************************************************************)
\* SpawnSerializer::capacity
SerializerCapacity == 65536

\* the capacity of SpawnSerializer::fds
SerializerMaxFds == 8

\* sizeof(payload) in ReadEventCallback()
ReceiveBufferSize == 8192

\* the length of fds in ReadEventCallback()
MaxRequestFds == 32

Min(a, b) == IF a < b THEN a ELSE b

\* SpawnSerializer::Write(), WriteByte() and WriteFd() throw
\* SpawnPayloadTooLargeError when the buffer or the fd array would overflow
SerializerAccepts(size, nfds) ==
    size <= SerializerCapacity /\ nfds <= SerializerMaxFds

\* recvmsg() on a datagram socket: what does not fit in iov is discarded,
\* and so are the fds that do not fit in msg_control
Recvmsg(w) ==
    [w EXCEPT !.phase = "received",
              !.nbytes = Min(w.size, ReceiveBufferSize),
              !.rfds = Min(w.nfds, MaxRequestFds)]

\* datagram sizes around every eighth of the receive buffer's size, up to
\* one byte more than the serializer holds
WireSizes ==
    {n \in {k * (ReceiveBufferSize \div 8) + d :
              k \in 0..(SerializerCapacity \div (ReceiveBufferSize \div 8)),
              d \in {-1, 0, 1}} : n >= 1}

WireFds == {0, 1, SerializerMaxFds, SerializerMaxFds + 1}

\* the client serializes a request of the given size (the command byte
\* included) with nfds fds, and sends it unless the serializer threw
SerializerSend ==
    \E size \in WireSizes, nfds \in WireFds :
        /\ req.wire.phase = "idle"
        /\ req' = [req EXCEPT !.wire =
                     [NoWire EXCEPT !.size = size, !.nfds = nfds,
                                    !.phase = IF SerializerAccepts(size, nfds)
                                              THEN "queued"
                                              ELSE "too_large"]]
        /\ UNCHANGED <<config, connections, nextConn, children, registry,
                       timers, volatile_event, sigchld_enabled, crashed,
                       procs, signals, frames, last, inbox>>

\* the server's socket is readable and ReadEventCallback() calls recvmsg()
ReceiveDatagram ==
    /\ req.wire.phase = "queued"
    /\ req' = [req EXCEPT !.wire = Recvmsg(req.wire)]
    /\ UNCHANGED <<config, connections, nextConn, children, registry,
                   timers, volatile_event, sigchld_enabled, crashed,
                   procs, signals, frames, last, inbox>>

NextRecv ==
    \/ SerializerSend
    \/ ReceiveDatagram

SpecRecv == Init /\ [][NextRecv]_vars

(***************************************************************************)
(* The chains of an EXEC: the client sends an EXEC with some BIND_MOUNT    *)
(* and CGROUP_SET sub-commands, which req.items keeps in the order of the  *)
(* datagram, and the server decodes it.                                    *)
(***************************************************************************)
\* the most sub-commands of an EXEC
MaxItems == 3

BindMountItems ==
    [cmd : {"BIND_MOUNT"}, source : {1, 2}, target : {1},
     writable : BOOLEAN, exec : {TRUE}]

CgroupSetItems == [cmd : {"CGROUP_SET"}, name : {1, 2}, value : {1, 2}]

\* a bool as the byte WriteByte() sends
ByteOf(b) == IF b THEN 1 ELSE 0

\* the bytes of one sub-command
SerializeItem(i) ==
    IF i.cmd = "BIND_MOUNT"
    THEN <<Tag("BIND_MOUNT"), i.source, i.target, ByteOf(i.writable),
           ByteOf(i.exec)>>
    ELSE <<Tag("CGROUP_SET"), i.name, i.value>>

RECURSIVE SerializeItems(_)
SerializeItems(items) ==
    IF items = <<>> THEN <<>>
    ELSE SerializeItem(Head(items)) \o SerializeItems(Tail(items))

InitChain ==
    /\ InitServer
    /\ \E items \in Seqs(BindMountItems \cup CgroupSetItems, MaxItems) :
          /\ inbox = [cmd |-> "EXEC",
                      payload |-> <<1, 1>> \o SerializeItems(items),
                      nfds |-> 0]
          /\ req = [NoReq EXCEPT !.items = items]

NextChain == Deliver

SpecChain == InitChain /\ [][NextChain]_vars

(***************************************************************************)
(* The round trip of a request: the client serializes a                    *)
(* PreparedChildProcess into the sub-commands of an EXEC, args first, then *)
(* TTY, UID_GID, the bind mounts and the cgroup settings, each list in its *)
(* order, and the server decodes the datagram.  req.orig keeps the value   *)
(* the client serialized.                                                  *)
(***************************************************************************)
\* the most elements of each list of a serialized request
MaxList == 2

RECURSIVE SerializeArgs(_)
SerializeArgs(args) ==
    IF args = <<>> THEN <<>>
    ELSE <<Tag("ARG"), Head(args)>> \o SerializeArgs(Tail(args))

SerializeUidGid(u) ==
    IF UidGidIsEmpty(u) THEN <<>>
    ELSE <<Tag("UID_GID"), u.uid, u.gid, Len(u.groups)>> \o u.groups

SerializePrepared(p) ==
    SerializeArgs(p.args)
    \o (IF p.tty THEN <<Tag("TTY")>> ELSE <<>>)
    \o SerializeUidGid(p.uid_gid)
    \o SerializeItems(p.mounts)
    \o SerializeItems(p.cgroup_sets)

RoundUidGids ==
    {EmptyUidGid}
    \cup [uid : {1}, gid : {1, 2}, groups : Seqs({1}, GroupsMaxSize)]

RoundPrepared ==
    [args : Seqs({1, 2}, MaxList), tty : BOOLEAN, uid_gid : RoundUidGids,
     mounts : Seqs({m \in BindMountItems : m.source = 1}, MaxList),
     cgroup_sets : Seqs({i \in CgroupSetItems : i.name = 1}, MaxList)]

InitRound ==
    /\ InitServer
    /\ \E p \in RoundPrepared :
          /\ inbox = [cmd |-> "EXEC",
                      payload |-> <<1, 1>> \o SerializePrepared(p),
                      nfds |-> 0]
          /\ req = [NoReq EXCEPT !.orig = p]

NextRound == Deliver

SpecRound == InitRound /\ [][NextRound]_vars

(***************************************************************************)
(* Connections side by side: children stay alive, and the connections get  *)
(* well-formed and malformed datagrams, refusals of the hook, failing      *)
(* sends and failing reads.                                                *)
(***************************************************************************)
\* an EXEC that ends before its name, and one that asks for an fd that did
\* not come
ShortExecPayloads == {<<1>>, <<1, 1, Tag("STDIN")>>}

NextSide ==
    \/ ExecMessage(MainExecPayloads \cup ShortExecPayloads, 0,
                   MainSpawnOutcomes, MainSendOutcomes)
    \/ KillMessage(MainKillDatagrams \cup MalformedKillDatagrams)
    \/ ConnectMessage(ConnectDatagrams)
    \/ ReadFailure

SpecSide == Init /\ [][NextSide]_vars

(***************************************************************************)
(* The parts of the spawner that run in the child or at startup are        *)
(* looked at one at a time, each in a specification of its own: req.unit   *)
(* holds the state of the part, and the server stands still.               *)
(***************************************************************************)
ServerVars ==
    <<config, connections, nextConn, children, registry, timers,
      volatile_event, sigchld_enabled, crashed, procs, signals, frames,
      last, inbox>>

\* the part goes from req.unit to u
UnitStep(u) == req' = [req EXCEPT !.unit = u] /\ UNCHANGED ServerVars

InitUnit(units) ==
    /\ InitServer
    /\ inbox = NoDatagram
    /\ \E u \in units : req = [NoReq EXCEPT !.unit = u]

(***************************************************************************)
(* BuildSyscallFilter(): the seccomp filter of a child                     *)
(***************************************************************************)
AF_LOCAL == 1
AF_INET == 2
AF_INET6 == 10

\* the syscalls of the deny list that the build goes through
MaxSyscalls == 4

\* the largest first argument of the syscalls that are tried
MaxDomain == 11

\* forbidden_syscalls[]
AllForbiddenSyscalls ==
    <<"acct", "add_key", "adjtimex", "bpf", "clock_adjtime",
      "clock_settime", "create_module", "delete_module", "fanotify_init",
      "fanotify_mark", "finit_module", "get_kernel_syms", "get_mempolicy",
      "init_module", "ioperm", "iopl", "kcmp", "kexec_file_load",
      "kexec_load", "keyctl", "lookup_dcookie", "mbind", "move_pages",
      "name_to_handle_at", "nfsservctl", "perf_event_open", "personality",
      "process_vm_readv", "process_vm_writev", "ptrace", "query_module",
      "quotactl", "reboot", "request_key", "set_mempolicy", "setns",
      "settimeofday", "stime", "stime", "swapoff", "swapon", "sysfs",
      "syslog", "_sysctl", "uselib", "userfaultfd", "ustat", "vm86",
      "vm86old">>

ForbiddenSyscalls ==
    SubSeq(AllForbiddenSyscalls, 1,
           Min(MaxSyscalls, Len(AllForbiddenSyscalls)))

\* allowed_socket_domains
AllowedSocketDomains == {AF_LOCAL, AF_INET, AF_INET6}

RECURSIVE SortedSeq(_)
\* the elements of a std::set in the order of its iteration
SortedSeq(S) ==
    IF S = {} THEN <<>>
    ELSE LET m == CHOOSE x \in S : \A y \in S : x <= y
         IN <<m>> \o SortedSeq(S \ {m})

Rule(action, syscall, op, datum) ==
    [action |-> action, syscall |-> syscall, op |-> op, datum |-> datum]

\* AddRange(): for (i = begin; i != end; ++i) AddRule(arg == i)
AddRange(action, syscall, begin, end) ==
    {Rule(action, syscall, "eq", i) : i \in begin..(end - 1)}

\* an AddInverted() whose ranges begin at the members of the whitelist
AddInvertedFromMember(action, syscall, whitelist) ==
    LET w == SortedSeq(whitelist)
    IN {Rule(action, syscall, "lt", w[1])}
       \cup UNION {AddRange(action, syscall, w[k], w[k + 1]) :
                      k \in 1..(Len(w) - 1)}
       \cup {Rule(action, syscall, "gt", w[Len(w)])}

\* AddInverted(): arg < first, the ranges between neighbours, arg > last
AddInverted(action, syscall, whitelist) ==
    LET w == SortedSeq(whitelist)
    IN {Rule(action, syscall, "lt", w[1])}
       \cup UNION {AddRange(action, syscall, w[k] + 1, w[k + 1]) :
                      k \in 1..(Len(w) - 1)}
       \cup {Rule(action, syscall, "gt", w[Len(w)])}

\* what seccomp_rule_add() answers: it adds the rule, or fails with EFAULT
\* for a syscall the kernel does not know, or fails otherwise
AddRuleOutcomes == {"ok", "EFAULT", "ENOMEM"}

NewFilter ==
    [kind |-> "filter", phase |-> "kill", i |-> 1, rules |-> {},
     outcomes |-> <<>>, call |-> [syscall |-> "none", arg |-> 0,
                                  result |-> "none"]]

\* a round of the loop in which every error ends the build
AddKillRuleStrict(u, o) ==
    LET u1 == [u EXCEPT !.outcomes = Append(@, o)]
    IN IF o = "ok"
       THEN [u1 EXCEPT !.rules = @ \cup {Rule("KILL", ForbiddenSyscalls[u.i],
                                              "any", 0)},
                       !.i = @ + 1]
       ELSE [u1 EXCEPT !.phase = "failed"]

\* one round of the loop over forbidden_syscalls: AddRule(SCMP_ACT_KILL, i)
\* in the try block, and the catch
AddKillRule(u, o) ==
    LET u1 == [u EXCEPT !.outcomes = Append(@, o)]
    IN IF o = "ok"
       THEN [u1 EXCEPT !.rules = @ \cup {Rule("KILL", ForbiddenSyscalls[u.i],
                                              "any", 0)},
                       !.i = @ + 1]
       ELSE IF o = "EFAULT" THEN [u1 EXCEPT !.i = @ + 1]
       ELSE [u1 EXCEPT !.phase = "failed"]

\* the AddInverted() call that ends BuildSyscallFilter()
AddSocketRules(u) ==
    [u EXCEPT !.rules = @ \cup AddInverted("EAFNOSUPPORT", "socket",
                                           AllowedSocketDomains),
              !.phase = "built"]

RuleMatches(r, syscall, arg) ==
    /\ r.syscall = syscall
    /\ CASE r.op = "any" -> TRUE
         [] r.op = "lt" -> arg < r.datum
         [] r.op = "eq" -> arg = r.datum
         [] r.op = "gt" -> arg > r.datum

\* what the kernel does with a syscall under the filter: the action of a
\* rule that matches, KILL before an errno, and else the default, ALLOW
Evaluate(rules, syscall, arg) ==
    LET hit == {r.action : r \in {q \in rules : RuleMatches(q, syscall, arg)}}
    IN IF "KILL" \in hit THEN "KILL"
       ELSE IF hit # {} THEN CHOOSE a \in hit : TRUE
       ELSE "ALLOW"

FilterAddKill ==
    \E o \in AddRuleOutcomes :
        /\ req.unit.phase = "kill"
        /\ req.unit.i <= Len(ForbiddenSyscalls)
        /\ UnitStep(AddKillRule(req.unit, o))

FilterAddSocket ==
    /\ req.unit.phase = "kill"
    /\ req.unit.i > Len(ForbiddenSyscalls)
    /\ UnitStep(AddSocketRules(req.unit))

\* the child makes a syscall under the filter
FilterCall ==
    \E syscall \in Range(ForbiddenSyscalls) \cup {"socket"},
       arg \in 0..MaxDomain :
        /\ req.unit.phase = "built"
        /\ UnitStep([req.unit EXCEPT
                        !.phase = "called",
                        !.call = [syscall |-> syscall, arg |-> arg,
                                  result |-> Evaluate(req.unit.rules,
                                                      syscall, arg)]])

NextFilter ==
    \/ FilterAddKill
    \/ FilterAddSocket
    \/ FilterCall

InitFilter == InitUnit({NewFilter})

SpecFilter == InitFilter /\ [][NextFilter]_vars

(***************************************************************************)
(* BindMount(): a bind mount of the child's mount namespace.  The flags   *)
(* of a mount() call are the set of their names.                           *)
(***************************************************************************)
MountFlags == {"MS_RDONLY", "MS_NOSUID", "MS_NODEV", "MS_NOEXEC"}

\* what mount() answers
MountOutcomes == {"ok", "EPERM", "EINVAL"}

NewBindMount(flags) ==
    [kind |-> "bind_mount", flags |-> flags, phase |-> "start",
     calls |-> <<>>]

\* a mount() call with these flags got answer o
MountCall(u, flags, o) ==
    [u EXCEPT !.calls = Append(@, [flags |-> flags, result |-> o])]

\* mount(source, target, nullptr, MS_BIND, nullptr), and flags != 0
MountBind(u, o) ==
    LET u1 == MountCall(u, {"MS_BIND"}, o)
    IN IF o # "ok" THEN [u1 EXCEPT !.phase = "error"]
       ELSE IF u.flags = {} THEN [u1 EXCEPT !.phase = "done"]
       ELSE [u1 EXCEPT !.phase = "bound"]

\* a remount that is tried again after every error
RemountRetryAlways(u, o) ==
    LET u1 == MountCall(u, {"MS_REMOUNT", "MS_BIND"} \cup u.flags, o)
    IN IF o = "ok" THEN [u1 EXCEPT !.phase = "done"]
       ELSE [u1 EXCEPT !.phase = "retry"]

\* mount(nullptr, target, nullptr, MS_REMOUNT|MS_BIND|flags, nullptr), and
\* errno != EPERM || (flags & MS_NOEXEC) != 0
Remount(u, o) ==
    LET u1 == MountCall(u, {"MS_REMOUNT", "MS_BIND"} \cup u.flags, o)
    IN IF o = "ok" THEN [u1 EXCEPT !.phase = "done"]
       ELSE IF o # "EPERM" \/ "MS_NOEXEC" \in u.flags
       THEN [u1 EXCEPT !.phase = "error"]
       ELSE [u1 EXCEPT !.phase = "retry"]

\* mount(nullptr, target, nullptr, MS_REMOUNT|MS_BIND|MS_NOEXEC|flags,
\* nullptr)
RemountNoExec(u, o) ==
    LET u1 == MountCall(u, {"MS_REMOUNT", "MS_BIND", "MS_NOEXEC"}
                              \cup u.flags, o)
    IN IF o = "ok" THEN [u1 EXCEPT !.phase = "done"]
       ELSE [u1 EXCEPT !.phase = "error"]

BindMountBind ==
    \E o \in MountOutcomes :
        /\ req.unit.phase = "start"
        /\ UnitStep(MountBind(req.unit, o))

BindMountRemount ==
    \E o \in MountOutcomes :
        /\ req.unit.phase = "bound"
        /\ UnitStep(Remount(req.unit, o))

BindMountRetry ==
    \E o \in MountOutcomes :
        /\ req.unit.phase = "retry"
        /\ UnitStep(RemountNoExec(req.unit, o))

NextBindMount ==
    \/ BindMountBind
    \/ BindMountRemount
    \/ BindMountRetry

InitBindMount == InitUnit({NewBindMount(f) : f \in SUBSET MountFlags})

SpecBindMount == InitBindMount /\ [][NextBindMount]_vars

(***************************************************************************)
(* CreateSystemdScope(): the server asks systemd for a scope of its own.   *)
(* The messages that Message::Pop() gives while the server waits are       *)
(* inputs; what is kept of them is whether the signal that was waited for  *)
(* has come.                                                               *)
(***************************************************************************)
\* the unit names of UnitRemoved signals: the server's own and another
UnitNames == {"own", "other"}

\* the object paths of jobs
JobPaths == {"job1", "job2", "job3"}

\* the replies to StartTransientUnit: the path of a job, or an error
StartReplies ==
    [type : {"path"}, path : JobPaths]
    \cup [type : {"UnitExists", "Failed"}, path : {"none"}]

\* what the loops of WaitUnitRemoved() and WaitJobRemoved() meet: a signal
\* of the manager, one whose arguments GetArgs() refuses, a message that
\* is no such signal, or dbus_connection_read_write() returning false
WaitEvents ==
    [type : {"UnitRemoved"}, arg : UnitNames]
    \cup [type : {"JobRemoved"}, arg : JobPaths]
    \cup [type : {"UnitRemoved", "JobRemoved"}, arg : {"malformed"}]
    \cup [type : {"other", "closed"}, arg : {"none"}]

NewScope(booted, delegate) ==
    [kind |-> "scope", booted |-> booted, delegate |-> delegate,
     phase |-> "start", calls |-> 0, first |-> "none", reply |-> "none",
     object_path |-> "none", unit_removed |-> FALSE, job_removed |-> FALSE,
     other_jobs |-> FALSE, state |-> "none"]

\* reply.CheckThrowError(), reply.GetArgs(object_path)
ScopeCheckReply(u) ==
    IF u.reply.type = "path"
    THEN [u EXCEPT !.phase = "wait_job", !.object_path = u.reply.path]
    ELSE [u EXCEPT !.phase = "thrown"]

\* PendingCall::SendWithReply(), Block(), StealReply()
ScopeSend(u, reply) ==
    [u EXCEPT !.calls = @ + 1, !.reply = reply,
              !.first = IF u.calls = 0 THEN reply.type ELSE @]

\* CreateSystemdScope() up to the first reply
ScopeBegin(u, reply) ==
    IF ~u.booted THEN [u EXCEPT !.phase = "returned", !.state = "empty"]
    ELSE LET u1 == ScopeSend(u, reply)
         IN IF reply.type = "UnitExists"
            THEN [u1 EXCEPT !.phase = "wait_unit"]
            ELSE ScopeCheckReply(u1)

\* a loop that takes the UnitRemoved signal of any unit
WaitUnitRemovedAnyUnit(u, e) ==
    IF e.type = "closed" THEN ScopeCheckReply(u)
    ELSE IF e.type # "UnitRemoved" THEN u
    ELSE IF e.arg = "malformed" THEN ScopeCheckReply(u)
    ELSE [u EXCEPT !.phase = "resend"]

\* one round of the loop of WaitUnitRemoved(): it goes on, returns false
\* (and the first reply is thrown), or returns true
WaitUnitRemoved(u, e) ==
    IF e.type = "closed" THEN ScopeCheckReply(u)
    ELSE IF e.type # "UnitRemoved" THEN u
    ELSE IF e.arg = "malformed" THEN ScopeCheckReply(u)
    ELSE IF e.arg = "own"
    THEN [u EXCEPT !.phase = "resend", !.unit_removed = TRUE]
    ELSE u

\* the second StartTransientUnit
ScopeResend(u, reply) == ScopeCheckReply(ScopeSend(u, reply))

\* one round of the loop of WaitJobRemoved(): it goes on or breaks
WaitJobRemoved(u, e) ==
    IF e.type = "closed" THEN [u EXCEPT !.phase = "load"]
    ELSE IF e.type # "JobRemoved" THEN u
    ELSE IF e.arg = "malformed" THEN [u EXCEPT !.phase = "load"]
    ELSE IF e.arg = u.object_path
    THEN [u EXCEPT !.phase = "load", !.job_removed = TRUE]
    ELSE [u EXCEPT !.other_jobs = TRUE]

\* return delegate ? LoadSystemdCgroupState(0) : CgroupState()
ScopeReturn(u) ==
    [u EXCEPT !.phase = "returned",
              !.state = IF u.delegate THEN "loaded" ELSE "empty"]

ScopeStart ==
    \E reply \in StartReplies :
        /\ req.unit.phase = "start"
        /\ UnitStep(ScopeBegin(req.unit, reply))

ScopeWaitUnit ==
    \E e \in WaitEvents :
        /\ req.unit.phase = "wait_unit"
        /\ UnitStep(WaitUnitRemoved(req.unit, e))

ScopeRetry ==
    \E reply \in StartReplies :
        /\ req.unit.phase = "resend"
        /\ UnitStep(ScopeResend(req.unit, reply))

ScopeWaitJob ==
    \E e \in WaitEvents :
        /\ req.unit.phase = "wait_job"
        /\ UnitStep(WaitJobRemoved(req.unit, e))

ScopeLoad ==
    /\ req.unit.phase = "load"
    /\ UnitStep(ScopeReturn(req.unit))

NextScope ==
    \/ ScopeStart
    \/ ScopeWaitUnit
    \/ ScopeRetry
    \/ ScopeWaitJob
    \/ ScopeLoad

InitScope ==
    InitUnit({NewScope(b, d) : b \in BOOLEAN, d \in BOOLEAN})

SpecScope == InitScope /\ [][NextScope]_vars

(***************************************************************************)
(* LoadSystemdCgroupState(): the cgroups of the server, read from          *)
(* /proc/self/cgroup.  A line is "id:name:path"; a name is the sequence of *)
(* the controllers that its commas separate, and a path the sequence of    *)
(* its characters.  The kernel names every controller in one line only.    *)
(***************************************************************************)
\* the most lines of the file
MaxLines == 3

SystemdName == <<"name=systemd">>

CgroupLine(id_ok, name, path) ==
    [id_ok |-> id_ok, name |-> name, path |-> path]

\* the lines a file is made of: the line of systemd, three lines of
\* controllers, one of them in another group, and lines that do not parse
CgroupLines ==
    {CgroupLine(TRUE, SystemdName, <<"/", "a">>),
     CgroupLine(TRUE, <<"cpu", "cpuacct">>, <<"/", "a">>),
     CgroupLine(TRUE, <<"memory">>, <<"/", "a">>),
     CgroupLine(TRUE, <<"pids">>, <<"/", "b">>),
     CgroupLine(TRUE, <<"blkio">>, <<"/", "/", "a">>),
     CgroupLine(FALSE, <<"devices">>, <<"/", "a">>),
     CgroupLine(TRUE, <<>>, <<"/", "a">>),
     CgroupLine(TRUE, SystemdName, <<"a">>)}

\* the files: some of the lines, each once, in any order
CgroupFiles ==
    {f \in Seqs(CgroupLines, MaxLines) :
        \A i, j \in DOMAIN f : i # j => f[i] # f[j]}

\* CgroupState()
EmptyCgroupState == [group_path |-> <<>>, mounts |-> <<>>, controllers |-> {}]

NewCgroupLoad(opened, file) ==
    [kind |-> "cgroup_state", opened |-> opened, file |-> file,
     phase |-> "open", pos |-> 1, assignments |-> <<>>,
     systemd_path |-> <<>>, state |-> EmptyCgroupState]

\* strtoul() stopped at a ':' after a digit; the name is not empty; the
\* path begins with one '/'
LineParses(l) ==
    /\ l.id_ok
    /\ l.name # <<>>
    /\ Len(l.path) >= 1 /\ l.path[1] = "/"
    /\ ~(Len(l.path) >= 2 /\ l.path[2] = "/")

Reverse(q) == [i \in 1..Len(q) |-> q[Len(q) + 1 - i]]

\* one round of the fgets() loop
ReadCgroupLine(u, l) ==
    LET u1 == [u EXCEPT !.pos = @ + 1]
    IN IF ~LineParses(l) THEN u1
       ELSE IF l.name = SystemdName THEN [u1 EXCEPT !.systemd_path = l.path]
       ELSE [u1 EXCEPT !.assignments =
                <<[name |-> l.name, path |-> l.path,
                   controllers |-> Reverse(l.name)]>> \o @]

\* state.controllers.emplace(controller, name): a controller that the map
\* has keeps its name
RECURSIVE EmplaceControllers(_, _, _)
EmplaceControllers(map, controllers, name) ==
    IF controllers = <<>> THEN map
    ELSE LET k == Head(controllers)
             m1 == IF \E e \in map : e[1] = k THEN map
                   ELSE map \cup {<<k, name>>}
         IN EmplaceControllers(m1, Tail(controllers), name)

RECURSIVE AddAssignmentsAnyPath(_, _, _)
\* a loop that takes the assignments of every path
AddAssignmentsAnyPath(state, assignments, systemd_path) ==
    IF assignments = <<>> THEN state
    ELSE LET a == Head(assignments)
             s1 == [state EXCEPT
                      !.controllers = EmplaceControllers(@, a.controllers,
                                                         a.name),
                      !.mounts = <<a.name>> \o @]
         IN AddAssignmentsAnyPath(s1, Tail(assignments), systemd_path)

RECURSIVE AddAssignments(_, _, _)
\* for (auto &i : assignments) if (i.path == systemd_path) ...
AddAssignments(state, assignments, systemd_path) ==
    IF assignments = <<>> THEN state
    ELSE LET a == Head(assignments)
             s1 == IF a.path # systemd_path THEN state
                   ELSE [state EXCEPT
                           !.controllers = EmplaceControllers(@, a.controllers,
                                                              a.name),
                           !.mounts = <<a.name>> \o @]
         IN AddAssignments(s1, Tail(assignments), systemd_path)

\* LoadSystemdCgroupState() after the loop
FinishCgroupState(u) ==
    IF u.systemd_path = <<>>
    THEN [u EXCEPT !.phase = "returned", !.state = EmptyCgroupState]
    ELSE LET s1 == AddAssignments(EmptyCgroupState, u.assignments,
                                  u.systemd_path)
         IN [u EXCEPT !.phase = "returned",
                      !.state = [s1 EXCEPT !.mounts = <<<<"systemd">>>> \o @,
                                           !.group_path = u.systemd_path]]

\* OpenProcCgroup() and the check of its result
OpenCgroupFile(u) ==
    IF ~u.opened
    THEN [u EXCEPT !.phase = "returned", !.state = EmptyCgroupState]
    ELSE [u EXCEPT !.phase = "read"]

RECURSIVE ReadCgroupLines(_, _)
ReadCgroupLines(u, lines) ==
    IF lines = <<>> THEN u
    ELSE ReadCgroupLines(ReadCgroupLine(u, Head(lines)), Tail(lines))

\* LoadSystemdCgroupState() on a file
LoadSystemdCgroupState(opened, file) ==
    LET u == OpenCgroupFile(NewCgroupLoad(opened, file))
    IN IF u.phase = "returned" THEN u.state
       ELSE FinishCgroupState(ReadCgroupLines(u, file)).state

CgroupOpen ==
    /\ req.unit.phase = "open"
    /\ UnitStep(OpenCgroupFile(req.unit))

CgroupReadLine ==
    /\ req.unit.phase = "read"
    /\ req.unit.pos <= Len(req.unit.file)
    /\ UnitStep(ReadCgroupLine(req.unit, req.unit.file[req.unit.pos]))

CgroupFinish ==
    /\ req.unit.phase = "read"
    /\ req.unit.pos > Len(req.unit.file)
    /\ UnitStep(FinishCgroupState(req.unit))

NextCgroup ==
    \/ CgroupOpen
    \/ CgroupReadLine
    \/ CgroupFinish

InitCgroup ==
    InitUnit({NewCgroupLoad(o, f) : o \in BOOLEAN, f \in CgroupFiles})

SpecCgroup == InitCgroup /\ [][NextCgroup]_vars

(***************************************************************************)
(* ChildOptions::CopyTo(): the options of a child are copied into a        *)
(* PreparedChildProcess.  A path is a string, "none" for nullptr; the      *)
(* stderr of dest is "unset" or the path whose open() gave its fd.         *)
(***************************************************************************)
\* the options; stderr_jailed comes with a stderr_path (the assert)
ChildOptionsSet ==
    {o \in [stderr_jailed : BOOLEAN, stderr_path : {"none", "log"},
            stderr_null : BOOLEAN, umask : {-1, 18},
            forbid_user_ns : BOOLEAN, writable_proc : BOOLEAN,
            env : Seqs({"A=1"}, 1)] :
        o.stderr_jailed => o.stderr_path # "none"}

\* what open() answers
OpenOutcomes == {"ok", "fail"}

NewCopy(o) ==
    [kind |-> "copy_to", options |-> o, phase |-> "start", opens |-> <<>>,
     dest |-> [umask |-> -1, stderr_path |-> "none", stderr |-> "unset",
               env |-> <<>>, forbid_user_ns |-> FALSE,
               writable_proc |-> FALSE]]

\* open(path) with answer r; PreparedChildProcess::SetStderr() if it gave
\* an fd
OpenStderr(u, path, r) ==
    LET u1 == [u EXCEPT !.opens = Append(@, [path |-> path, result |-> r])]
    IN IF r = "ok" THEN [u1 EXCEPT !.dest.stderr = path] ELSE u1

\* a CopyTo() that looks at stderr_null before stderr_path
CopyStderrNullFirst(u, r) ==
    LET o == u.options
        u0 == [u EXCEPT !.dest.umask = o.umask, !.phase = "rest"]
    IN IF o.stderr_jailed THEN [u0 EXCEPT !.dest.stderr_path = o.stderr_path]
       ELSE IF o.stderr_null THEN OpenStderr(u0, "/dev/null", r)
       ELSE IF o.stderr_path # "none"
       THEN LET u1 == OpenStderr(u0, o.stderr_path, r)
            IN IF r = "ok" THEN u1 ELSE [u1 EXCEPT !.phase = "thrown"]
       ELSE u0

\* CopyTo() up to the loop over env: umask and stderr
CopyStderr(u, r) ==
    LET o == u.options
        u0 == [u EXCEPT !.dest.umask = o.umask, !.phase = "rest"]
    IN IF o.stderr_jailed THEN [u0 EXCEPT !.dest.stderr_path = o.stderr_path]
       ELSE IF o.stderr_path # "none"
       THEN LET u1 == OpenStderr(u0, o.stderr_path, r)
            IN IF r = "ok" THEN u1 ELSE [u1 EXCEPT !.phase = "thrown"]
       ELSE IF o.stderr_null THEN OpenStderr(u0, "/dev/null", r)
       ELSE u0

\* a CopyTo() that copies ns and leaves its writable_proc as it is
CopyRestKeepProc(u) ==
    LET o == u.options
    IN [u EXCEPT !.phase = "done",
                 !.dest.env = @ \o o.env,
                 !.dest.forbid_user_ns = o.forbid_user_ns,
                 !.dest.writable_proc = o.writable_proc]

\* CopyTo() from the loop over env on
CopyRest(u) ==
    LET o == u.options
    IN [u EXCEPT !.phase = "done",
                 !.dest.env = @ \o o.env,
                 !.dest.forbid_user_ns = o.forbid_user_ns,
                 !.dest.writable_proc =
                     IF ~o.forbid_user_ns THEN TRUE ELSE o.writable_proc]

CopyToStderr ==
    \E r \in OpenOutcomes :
        /\ req.unit.phase = "start"
        /\ UnitStep(CopyStderr(req.unit, r))

CopyToRest ==
    /\ req.unit.phase = "rest"
    /\ UnitStep(CopyRest(req.unit))

NextCopy ==
    \/ CopyToStderr
    \/ CopyToRest

InitCopy == InitUnit({NewCopy(o) : o \in ChildOptionsSet})

SpecCopy == InitCopy /\ [][NextCopy]_vars

(***************************************************************************)
(* The forked child: the isolation steps before execve().  A step that the *)
(* request does not ask for is passed over; a step that fails ends the     *)
(* child with _exit(0xff).                                                 *)
(***************************************************************************)
ChildSteps ==
    <<"netns", "cgroup", "hostname", "mounts", "chroot", "rlimits", "umask",
      "setgroups", "setgid", "setuid", "no_new_privs", "seccomp", "stderr",
      "dup2", "execve">>

\* the steps a request may leave out
OptionalSteps == {"netns", "cgroup", "hostname", "chroot", "stderr"}

StepOutcomes == {"ok", "fail"}

\* the exit code of a child that failed before or in execve()
ChildExitFailure == ExitFailure \div 256

NewChild(asked) ==
    [kind |-> "child", asked |-> asked, pc |-> 1, log |-> <<>>,
     state |-> "running", code |-> 0]

\* a child that goes on after a failed step
RunChildStepIgnoreFailure(u, r) ==
    LET step == ChildSteps[u.pc]
        u1 == [u EXCEPT !.pc = @ + 1]
    IN IF step \in OptionalSteps /\ step \notin u.asked THEN u1
       ELSE LET u2 == [u1 EXCEPT !.log = Append(@, [step |-> step,
                                                      result |-> r])]
            IN IF step = "execve" /\ r = "ok" THEN [u2 EXCEPT !.state = "exec"]
               ELSE IF step = "execve"
               THEN [u2 EXCEPT !.state = "exited",
                               !.code = ChildExitFailure]
               ELSE u2

\* the next step of the child, with the answer r of its system calls
RunChildStep(u, r) ==
    LET step == ChildSteps[u.pc]
        u1 == [u EXCEPT !.pc = @ + 1]
    IN IF step \in OptionalSteps /\ step \notin u.asked THEN u1
       ELSE LET u2 == [u1 EXCEPT !.log = Append(@, [step |-> step,
                                                      result |-> r])]
            IN IF r = "fail" THEN [u2 EXCEPT !.state = "exited",
                                            !.code = ChildExitFailure]
               ELSE IF step = "execve" THEN [u2 EXCEPT !.state = "exec"]
               ELSE u2

ChildStep ==
    \E r \in StepOutcomes :
        /\ req.unit.state = "running"
        /\ UnitStep(RunChildStep(req.unit, r))

NextChild == ChildStep

InitChild == InitUnit({NewChild(a) : a \in SUBSET OptionalSteps})

SpecChild == InitChild /\ [][NextChild]_vars

(***************************************************************************)
(* http_list_contains(): a list and an item are strings, here sequences    *)
(* of characters; "q" stands for the double quote.                         *)
(***************************************************************************)
MaxElements == 2

HttpWords == {<<"b">>, <<"b", "t">>, <<"f">>}

\* an element of a list, or an item: a word, in double quotes or not
HttpElements == [word : HttpWords, quoted : BOOLEAN]

RenderElement(e) == IF e.quoted THEN <<"q">> \o e.word \o <<"q">> ELSE e.word

RECURSIVE RenderList(_)
RenderList(es) ==
    IF Len(es) = 1 THEN RenderElement(es[1])
    ELSE RenderElement(es[1]) \o <<",">> \o RenderList(Tail(es))

HttpLists == UNION {[1..n -> HttpElements] : n \in 1..MaxElements}

\* a string without the pair of double quotes around it
HttpTrim(s) ==
    IF Len(s) >= 2 /\ s[1] = "q" /\ s[Len(s)] = "q"
    THEN SubSeq(s, 2, Len(s) - 1)
    ELSE s

\* a comparison that takes a string that starts with the item for the item
HttpEqualsPrefix(a, b) ==
    LET x == HttpTrim(a)
        y == HttpTrim(b)
    IN Len(y) <= Len(x) /\ SubSeq(x, 1, Len(y)) = y

HttpEquals(a, b) == HttpTrim(a) = HttpTrim(b)

\* the place of the first comma of s, 0 if it has none
FirstComma(s) ==
    IF \E i \in 1..Len(s) : s[i] = ","
    THEN CHOOSE i \in 1..Len(s) :
             s[i] = "," /\ \A j \in 1..(i - 1) : s[j] # ","
    ELSE 0

RECURSIVE http_list_contains(_, _)
http_list_contains(list, item) ==
    IF list = <<>> THEN FALSE
    ELSE LET comma == FirstComma(list)
         IN IF comma = 0 THEN HttpEquals(list, item)
            ELSE IF HttpEquals(SubSeq(list, 1, comma - 1), item) THEN TRUE
            ELSE http_list_contains(SubSeq(list, comma + 1, Len(list)), item)

NewListQuery(es, e) ==
    [kind |-> "http_list", elements |-> es, item |-> e,
     list |-> RenderList(es), called |-> FALSE, result |-> FALSE]

ListContains ==
    /\ req.unit.called = FALSE
    /\ UnitStep([req.unit EXCEPT
           !.called = TRUE,
           !.result = http_list_contains(req.unit.list,
                                         RenderElement(req.unit.item))])

NextList == ListContains

InitList == InitUnit({NewListQuery(es, e) : es \in HttpLists, e \in HttpElements})

SpecList == InitList /\ [][NextList]_vars

(***************************************************************************)
(* The server runs with the calls of the last step kept in req.log.        *)
(***************************************************************************)
\* the step of connection c (0 for the SIGCHLD handler) that made the
\* calls of S.log
Calls(c, S) == [NoReq EXCEPT !.conn = c, !.log = S.log]

ReadEventLogged(c, dgram, env, out) ==
    \E h \in {ReadEventCallback(Server, c, dgram, env, out)} :
       /\ Commit(h.s)
       /\ last' = Event(c, dgram, h)
       /\ req' = [Calls(c, h.s) EXCEPT !.id = h.id]
       /\ UNCHANGED <<config, inbox>>

ExecLogged ==
    \E c \in connections, payload \in MainExecPayloads,
       env \in MainSpawnOutcomes, out \in MainSendOutcomes :
        /\ Running
        /\ ReadEventLogged(c, [cmd |-> "EXEC", payload |-> payload,
                               nfds |-> 0], env, out)

KillLogged ==
    \E c \in connections, dgram \in MainKillDatagrams :
        /\ Running
        /\ ReadEventLogged(c, dgram,
                           CHOOSE e \in SpawnOutcomes : TRUE,
                           CHOOSE o \in SendOutcomes : TRUE)

ReadFailureLogged ==
    \E c \in connections, why \in RecvFailures :
        /\ Running
        /\ \E S \in {ReadEventFailure(Server, c, why)} :
              /\ Commit(S)
              /\ req' = Calls(c, S)
        /\ last' = [NoLast EXCEPT !.cmd = why, !.conn = c]
        /\ UNCHANGED <<config, inbox>>

SigChldLogged ==
    \E order \in Orders(Zombies), outs \in [Zombies -> MainSendOutcomes],
       ub \in {"crash", "continue"} :
        /\ Running
        /\ sigchld_enabled
        /\ Zombies # {}
        /\ \E S \in {OnSigChld(Server, order, outs, ub)} :
              /\ Commit(S)
              /\ req' = Calls(0, S)
        /\ last' = [NoLast EXCEPT !.cmd = "SIGCHLD"]
        /\ UNCHANGED <<config, inbox>>

NextLog ==
    \/ ExecLogged
    \/ KillLogged
    \/ ConnectMessage(MainConnectDatagrams)
    \/ ReadFailureLogged
    \/ ChildExit
    \/ SigChldLogged
    \/ KillTimeout

SpecLog == Init /\ [][NextLog]_vars

(***************************************************************************)
(* The RLIMIT sub-command: Read(SpawnPayload &, ResourceLimits &).  An     *)
(* RLIMIT is its index byte and its record; record 0 stands for a record   *)
(* that the end of the payload cuts short.                                 *)
(***************************************************************************)
MaxRlimits == 2

\* the entries of ResourceLimits::values (RLIM_NLIMITS)
RlimNlimits == 16

\* index bytes: the first and the last kind, the first byte past the
\* array and the largest byte
RlimitIndexes == {0, RlimNlimits - 1, RlimNlimits, 255}

RlimitCommands == [index : RlimitIndexes, record : 0..2]

NewRlimitDecoder(cmds) ==
    [kind |-> "rlimit", payload |-> cmds,
     values |-> [i \in 0..(RlimNlimits - 1) |-> 0],
     outside |-> {}, malformed |-> FALSE, crashed |-> FALSE]

\* Read(payload, rlimits): values[i] is written without a look at i; a
\* write past the array is undefined, and the process dies of it or goes
\* on with other memory overwritten
ReadRlimit(u, ub) ==
    LET cmd == Head(u.payload)
        u1 == [u EXCEPT !.payload = Tail(@)]
    IN IF cmd.record = 0 THEN [u1 EXCEPT !.malformed = TRUE]
       ELSE IF cmd.index < RlimNlimits
       THEN [u1 EXCEPT !.values[cmd.index] = cmd.record]
       ELSE [u1 EXCEPT !.outside = @ \cup {cmd.index},
                       !.crashed = (ub = "crash")]

RlimitCommand ==
    \E ub \in {"crash", "continue"} :
        /\ req.unit.payload # <<>>
        /\ ~req.unit.malformed
        /\ ~req.unit.crashed
        /\ UnitStep(ReadRlimit(req.unit, ub))

NextRlimit == RlimitCommand

InitRlimit ==
    InitUnit({NewRlimitDecoder(cmds) : cmds \in Seqs(RlimitCommands, MaxRlimits)})

SpecRlimit == InitRlimit /\ [][NextRlimit]_vars

(***************************************************************************)
(* SpawnSerializer: the write calls.  A serializer is the size of its      *)
(* payload and its list of fds; a call gives the serializer after it and   *)
(* whether it threw SpawnPayloadTooLargeError.                             *)
(***************************************************************************)
MaxCalls == 10

\* the sizes of the buffers written: an int, and one that fills the
\* payload up to four bytes
BufferSizes == {4, SerializerCapacity - 5}

\* the lengths of the strings written, without the null byte
StringLengths == {4, SerializerCapacity - 6}

\* SpawnSerializer(cmd)
NewSerializer ==
    [kind |-> "serializer", size |-> 1, fds |-> <<>>, calls |-> 0,
     op |-> "none", thrown |-> FALSE, before |-> [size |-> 1, fds |-> <<>>]]

Returned(s) == [s |-> s, thrown |-> FALSE]
Thrown(s) == [s |-> s, thrown |-> TRUE]

\* a WriteByte() whose check is off by one
WriteByteOffByOne(s) ==
    IF s.size > SerializerCapacity THEN Thrown(s)
    ELSE Returned([s EXCEPT !.size = @ + 1])

WriteByte(s) ==
    IF s.size >= SerializerCapacity THEN Thrown(s)
    ELSE Returned([s EXCEPT !.size = @ + 1])

\* Write(ConstBuffer<void>) of n bytes
WriteBuffer(s, n) ==
    IF s.size + n > SerializerCapacity THEN Thrown(s)
    ELSE Returned([s EXCEPT !.size = @ + n])

\* WriteString(value): the string and its null byte
WriteString(s, len) == WriteBuffer(s, len + 1)

\* WriteString(cmd, value): Write(cmd), then WriteString(value)
WriteStringCommand(s, len) ==
    LET r == WriteByte(s)
    IN IF r.thrown THEN r ELSE WriteString(r.s, len)

\* WriteFd(cmd, fd)
WriteFd(s, fd) ==
    IF Len(s.fds) = SerializerMaxFds THEN Thrown(s)
    ELSE LET r == WriteByte(s)
         IN IF r.thrown THEN r
            ELSE Returned([r.s EXCEPT !.fds = Append(@, fd)])

\* the serializer after a call, with what it was before the call
Called(u, op, r) ==
    [r.s EXCEPT !.calls = u.calls + 1, !.op = op, !.thrown = r.thrown,
                !.before = [size |-> u.size, fds |-> u.fds]]

SerializerWriteByte ==
    /\ req.unit.calls < MaxCalls
    /\ UnitStep(Called(req.unit, "WriteByte", WriteByte(req.unit)))

SerializerWrite ==
    \E n \in BufferSizes :
        /\ req.unit.calls < MaxCalls
        /\ UnitStep(Called(req.unit, "Write", WriteBuffer(req.unit, n)))

SerializerWriteString ==
    \E len \in StringLengths :
        /\ req.unit.calls < MaxCalls
        /\ UnitStep(Called(req.unit, "WriteString",
                           WriteString(req.unit, len)))

SerializerWriteStringCommand ==
    \E len \in StringLengths :
        /\ req.unit.calls < MaxCalls
        /\ UnitStep(Called(req.unit, "WriteString(cmd)",
                           WriteStringCommand(req.unit, len)))

SerializerWriteFd ==
    /\ req.unit.calls < MaxCalls
    /\ UnitStep(Called(req.unit, "WriteFd",
                       WriteFd(req.unit, Len(req.unit.fds) + 3)))

NextSerializer ==
    \/ SerializerWriteByte
    \/ SerializerWrite
    \/ SerializerWriteString
    \/ SerializerWriteStringCommand
    \/ SerializerWriteFd

InitSerializer == InitUnit({NewSerializer})

SpecSerializer == InitSerializer /\ [][NextSerializer]_vars

(***************************************************************************)
(* Properties                                                              *)
(***************************************************************************)
\* EXIT frames with the given id among the datagrams q
ExitCount(q, id) ==
    Cardinality({i \in DOMAIN q : q[i].cmd = "EXIT" /\ q[i].id = id})

\* this step waits for pid
ReapedNow(pid) == procs[pid].state = "zombie" /\ procs'[pid].state = "reaped"

\* this step destroys connection c
TornDown(c) == c \in connections /\ c \notin connections'

LastOf(q) == q[Len(q)]

\* C1: a child that was forked for EXEC id I on connection C gets exactly
\* one EXIT frame with id I on C in the step that reaps it, if C lives
\* before and after that step, whatever C was sent in between, a KILL for
\* I included.  (Steps that end in undefined behaviour are left out.)
C1_ExitForEveryForkedExec ==
    [][\A pid \in Pids :
          (/\ ReapedNow(pid)
           /\ ~crashed'
           /\ procs[pid].conn \in connections \cap connections')
          => ExitCount(frames'[procs[pid].conn], procs[pid].id)
                = Cardinality({q \in Pids : /\ ReapedNow(q)
                                            /\ procs[q].conn = procs[pid].conn
                                            /\ procs[q].id = procs[pid].id})]_vars

\* C2: the step that destroys a connection sends SIGTERM exactly once to
\* every child in its map (that the same step does not reap), leaves that
\* pid in the registry without a listener, empties the map, and sends no
\* EXIT for such a child: the EXIT frames of that step belong to children
\* it reaped, and a destroyed connection is never sent anything.  A pid is
\* in the registry as long as it is not reaped.
C2_TeardownKillsChildren ==
    /\ [][\A c \in Conns :
             TornDown(c) =>
               /\ children'[c] = {}
               /\ \A ch \in children[c] :
                     ~ReapedNow(ch.pid) =>
                       /\ signals'[ch.pid] = Append(signals[ch.pid], SIGTERM)
                       /\ ch.pid \in DOMAIN registry'
                       /\ registry'[ch.pid] = NoListener
               /\ \A i \in DOMAIN frames'[c] :
                     frames'[c][i].cmd = "EXIT" =>
                        \E pid \in Pids : /\ ReapedNow(pid)
                                          /\ procs[pid].conn = c
                                          /\ procs[pid].id = frames'[c][i].id]_vars
    /\ [][\A c \in Conns : c \notin connections => frames'[c] = <<>>]_vars
    /\ [](\A c \in Conns : c \notin connections => children[c] = {})
    /\ [](\A pid \in Pids :
             procs[pid].state \in {"running", "zombie"}
                => pid \in DOMAIN registry)

\* a destroyed connection whose two children got its SIGTERM and wait in
\* the registry for their reap
C2_Witness ==
    \E c \in 1..nextConn :
        /\ c \notin connections
        /\ \A pid \in Pids :
              /\ procs[pid].conn = c
              /\ procs[pid].state = "running"
              /\ signals[pid] = <<SIGTERM>>
              /\ pid \in DOMAIN registry
              /\ registry[pid] = NoListener

\* C3: in every reachable state, handling KILL(id, signo) on a connection
\* whose map has no such id changes nothing (no signal, no frame, same maps
\* and registry), and handling any KILL a second time changes nothing; a
\* KILL step that leaves the maps alone sends no signal and no frame.
C3_KillUnknownIdIsNoOp ==
    /\ [](\A c \in connections, id \in Ids, signo \in KillSignos \cup {SIGTERM} :
            LET h == HandleKillMessage(Server, c, <<id, signo>>, 0)
            IN /\ ~h.malformed
               /\ (\A ch \in children[c] : ch.id # id) => h.s = Server
               /\ HandleKillMessage(h.s, c, <<id, signo>>, 0).s = h.s)
    /\ [][(/\ last'.cmd = "KILL"
           /\ ~last'.malformed
           /\ children' = children)
          => /\ signals' = signals
             /\ registry' = registry
             /\ timers' = timers
             /\ connections' = connections
             /\ \A c \in Conns : frames'[c] = <<>>]_vars

\* a KILL was handled while no child was ever forked
C3_Witness ==
    /\ last.cmd = "KILL"
    /\ ~last.malformed
    /\ \A pid \in Pids : procs[pid].state = "unborn"
    /\ \A c \in Conns : frames[c] = <<>>

\* C4: the step in which the registry drops a pid's listener and sends it
\* SIGTERM or SIGKILL arms the pid's timer; a timer that fires for a pid
\* still in the registry sends it SIGKILL; a pid that leaves the registry
\* has no timer, so no timer is pending for a pid outside the registry and
\* such a pid is sent nothing.
C4_KillTimeout ==
    /\ [](timers \subseteq DOMAIN registry)
    /\ [][\A pid \in Pids :
             /\ (/\ pid \in DOMAIN registry
                 /\ pid \in DOMAIN registry'
                 /\ registry[pid] # NoListener
                 /\ registry'[pid] = NoListener
                 /\ LastOf(signals'[pid]) \in {SIGTERM, SIGKILL})
                => pid \in timers'
             /\ (pid \in timers /\ pid \notin timers'
                    /\ pid \in DOMAIN registry')
                => signals'[pid] = Append(signals[pid], SIGKILL)
             /\ (pid \in DOMAIN registry /\ pid \notin DOMAIN registry')
                => pid \notin timers'
             /\ (pid \notin DOMAIN registry /\ pid \notin DOMAIN registry')
                => signals'[pid] = signals[pid]]_vars

\* a child that got the SIGTERM of a teardown, was not reaped in time and
\* got the SIGKILL of its timer
C4_Witness ==
    \E pid \in Pids :
        /\ signals[pid] = <<SIGTERM, SIGKILL>>
        /\ pid \in DOMAIN registry
        /\ pid \notin timers

AllClosedOnce ==
    \A fd \in 1..last.nfds : last.closes[fd] = 1

\* C6: when the handler of a datagram returns after a
\* MalformedSpawnPayloadError, close() was called exactly once on every fd
\* that arrived with the datagram, whether Get() had handed it to the
\* PreparedChildProcess or it was still in the list.
C6_MalformedClosesEveryFd ==
    last.malformed => AllClosedOnce

\* an EXEC with two fds failed after one of them was moved to a slot
C6_Witness ==
    /\ last.cmd = "EXEC"
    /\ last.malformed
    /\ last.nfds = 2
    /\ last.taken = 1
    /\ AllClosedOnce

\* C7: when an EXEC decodes and its sub-commands took every fd that came
\* with it, each fd was in exactly one place (the list or one slot) after
\* every sub-command, a slot named twice included, and when the handler
\* returns close() was called exactly once on every one of them.
C7_DecodedFdsHaveOneOwner ==
    (/\ last.cmd = "EXEC"
     /\ ~last.malformed
     /\ last.taken = last.nfds)
    => last.owned /\ AllClosedOnce

\* an EXEC with two fds named STDIN twice
C7_Witness ==
    /\ last.cmd = "EXEC"
    /\ ~last.malformed
    /\ last.nfds = 2
    /\ last.taken = 2
    /\ last.p.stdin_fd = 2
    /\ last.p.stdout_fd = -1 /\ last.p.stderr_fd = -1
    /\ last.p.control_fd = -1
    /\ last.owned /\ AllClosedOnce

\* C8: an EXEC whose sub-command stream holds a byte that is no
\* SpawnExecCommand is a decoding error: SpawnChild() is not reached and
\* no sub-command after the byte is applied.
C8_UnknownTagRejected ==
    (last.cmd = "EXEC" /\ last.unknown)
    => last.malformed /\ ~last.spawned

DropReasons == {"past the end", "groups", "no fd"}

\* the connection that got the waiting datagram handles a well-formed EXEC
\* that comes now: a child is forked for it
NextExecForks(payload) ==
    LET h == ReadEventCallback(Server, 1,
                               [cmd |-> "EXEC", payload |-> payload,
                                nfds |-> 0],
                               [hook |-> "true", config_ok |-> TRUE,
                                fork |-> TRUE],
                               [first |-> "ok", poll |-> FALSE,
                                second |-> FALSE])
    IN ~h.malformed /\ h.spawned /\ h.s.forked # {}

\* C9: a datagram whose decoding read past the end of the payload, found
\* a group count above the capacity or asked Get() for an fd of an empty
\* list spawns no child, sends no frame, leaves the maps, the registry,
\* the processes and the connections as they were, and the connection
\* handles a well-formed EXEC that comes next.
C9_MalformedDatagramDropped ==
    /\ [][(last'.malformed /\ last'.why \in DropReasons)
          => /\ ~last'.spawned
             /\ \A c \in Conns : frames'[c] = <<>>
             /\ children' = children
             /\ registry' = registry
             /\ timers' = timers
             /\ procs' = procs
             /\ signals' = signals
             /\ connections' = connections
             /\ ~crashed']_vars
    /\ []((last.malformed /\ last.why \in DropReasons)
          => /\ 1 \in connections
             /\ Running
             /\ \A payload \in MainExecPayloads : NextExecForks(payload))

\* an EXEC whose UID_GID names more groups than fit was dropped
C9_Witness ==
    /\ last.cmd = "EXEC"
    /\ last.malformed
    /\ last.why = "groups"
    /\ ~last.spawned
    /\ connections = {1}
    /\ registry = <<>>

\* C10: a receive that reports EAGAIN leaves the connections, their maps
\* and the children as they were.
C10_EagainKeepsConnection ==
    [][last'.cmd = "EAGAIN"
       => /\ connections' = connections
          /\ children' = children
          /\ signals' = signals
          /\ registry' = registry]_vars

\* the last step handled an EXEC that reached SpawnChild(), and the
\* request was kept
SpawnReached == last.cmd = "EXEC" /\ last.spawned /\ req.conn # 0

\* the EXEC carried a UID_GID sub-command
HasUidGid == ~UidGidIsEmpty(last.p.uid_gid)

\* the one SendExit() call of a request that failed
FailureExit ==
    <<[conn |-> req.conn, id |-> req.id, status |-> ExitFailure]>>

\* C11: an EXEC with uid/gid for which the installed hook's Verify()
\* returned false is answered with EXIT{id, 0xff00} and forks nothing.
C11_HookFalseRejects ==
    (SpawnReached /\ HasUidGid /\ config.hook /\ req.env.hook = "false")
    => req.exits = FailureExit /\ req.forked = {}

\* C12: before an EXEC forks, the hook's Verify() was called if a hook is
\* installed, else the configuration's Verify(), whether the uid/gid came
\* with the request or is the default.
C12_ForkAfterPolicyCheck ==
    (SpawnReached /\ req.forked # {})
    => IF config.hook THEN "hook" \in req.verify
                      ELSE "config" \in req.verify

\* C13: for an EXEC without uid/gid, SpawnChildProcess() is called with
\* the default uid/gid of the configuration, and the request either forks
\* or is answered with one EXIT{id, 0xff00}; without a default,
\* SpawnChildProcess() is not called, nothing is forked and the answer is
\* one EXIT{id, 0xff00}.
C13_DefaultUidGid ==
    (SpawnReached /\ ~HasUidGid)
    => IF config.default_uid_gid
       THEN /\ req.cred = <<DefaultUidGid>>
            /\ req.forked = {} => req.exits = FailureExit
            /\ req.forked # {} => req.exits = <<>>
       ELSE /\ req.cred = <<>>
            /\ req.forked = {}
            /\ req.exits = FailureExit

\* an EXEC without uid/gid was forked with the default
C13_Witness ==
    /\ SpawnReached
    /\ ~HasUidGid
    /\ config.default_uid_gid
    /\ req.forked # {}
    /\ req.cred = <<DefaultUidGid>>

\* C14: a step in which an EXEC reaches SpawnChild() and forks nothing
\* calls SendExit() exactly once, with the request's connection and id and
\* 0xff00; if the send succeeds that EXIT is the one frame of the step,
\* and if it fails no frame is sent and the connection is destroyed; no
\* map and not the registry gain an entry.
C14_PreForkFailureExit ==
    [][(/\ last'.cmd = "EXEC" /\ last'.spawned /\ req'.conn # 0
        /\ req'.forked = {})
       => /\ req'.exits = <<[conn |-> req'.conn, id |-> req'.id,
                            status |-> ExitFailure]>>
          /\ \A c \in Conns :
                frames'[c] = IF c = req'.conn /\ SendSucceeds(req'.out)
                             THEN <<ExitFrame(req'.id, ExitFailure)>>
                             ELSE <<>>
          /\ SendSucceeds(req'.out) <=> req'.conn \in connections'
          /\ DOMAIN registry' = DOMAIN registry
          /\ procs' = procs
          /\ \A c \in Conns : children'[c] \subseteq children[c]]_vars

\* the hook refused an EXEC with uid/gid, and the EXIT was sent
C14_Witness ==
    /\ SpawnReached
    /\ HasUidGid
    /\ config.hook /\ req.env.hook = "throw"
    /\ req.forked = {}
    /\ frames[req.conn] = <<ExitFrame(req.id, ExitFailure)>>

\* the sends of the SendExit() call failed in the end
SendFailed(out) ==
    \/ out.first = "error"
    \/ out.first = "EAGAIN" /\ ~out.poll
    \/ out.first = "EAGAIN" /\ out.poll /\ ~out.second

\* C15: a SendExit() call sends once or twice; twice exactly when the
\* first send failed with EAGAIN and ppoll() reported the socket writable;
\* when the first send fails otherwise, ppoll() times out or the second
\* send fails, no frame is sent and the connection is destroyed, else the
\* frame is sent and the connection stays.
C15_SendExitRetriesOnce ==
    (SpawnReached /\ req.exits # <<>>)
    => /\ req.attempts \in {1, 2}
       /\ req.attempts = 2 <=> (req.out.first = "EAGAIN" /\ req.out.poll)
       /\ SendFailed(req.out)
            => req.conn \notin connections /\ frames[req.conn] = <<>>
       /\ ~SendFailed(req.out)
            => /\ req.conn \in connections
               /\ frames[req.conn] = <<ExitFrame(req.id, ExitFailure)>>

\* the first send met EAGAIN, the socket became writable and the second
\* send went through
C15_Witness ==
    /\ SpawnReached
    /\ req.out.first = "EAGAIN" /\ req.out.poll /\ req.out.second
    /\ req.attempts = 2
    /\ frames[req.conn] = <<ExitFrame(req.id, ExitFailure)>>

\* C16: the server enters the event loop having sent CGROUPS_AVAILABLE
\* once on the initial connection if the cgroup state is enabled and
\* nothing otherwise, and no step of the event loop sends it on any
\* connection.
C16_CgroupsAvailableOnce ==
    /\ \A c \in Conns :
          frames[c] = IF c = 1 /\ config.cgroups THEN <<CgroupsFrame>>
                      ELSE <<>>
    /\ [][\A c \in Conns : \A i \in DOMAIN frames'[c] :
             frames'[c][i] # CgroupsFrame]_vars

\* a CONNECT has made a second connection of a server with cgroups
C16_Witness ==
    /\ config.cgroups
    /\ last.cmd = "CONNECT"
    /\ connections = {1, 2}
    /\ frames[2] = <<>>

\* C17: no pid is in the maps of two connections or twice in one map, and
\* no two entries of one map have the same id.
C17_ChildMapsDisjoint ==
    \A c1, c2 \in Conns :
       \A ch1 \in children[c1], ch2 \in children[c2] :
          /\ ch1.pid = ch2.pid => c1 = c2 /\ ch1 = ch2
          /\ (c1 = c2 /\ ch1.id = ch2.id) => ch1 = ch2

\* two children were forked for the same id of one connection, and its
\* map holds one of them
C17_Witness ==
    \E c \in connections :
        /\ Cardinality(children[c]) = 1
        /\ \A pid \in Pids :
              /\ procs[pid].state = "running"
              /\ procs[pid].conn = c
              /\ procs[pid].id = 1

\* C18: recvmsg() returns every byte and every fd of a request datagram
\* that the serializer accepted.
C18_DatagramReceivedWhole ==
    req.wire.phase = "received"
    => /\ req.wire.nbytes = req.wire.size
       /\ req.wire.rfds = req.wire.nfds

\* the sub-commands of the request with the given tag, in the order of the
\* datagram
ItemsOf(cmd) == SelectSeq(req.items, LAMBDA i : i.cmd = cmd)

\* C19: when an EXEC reaches SpawnChild(), the chain of p.ns.mounts holds
\* the records of its BIND_MOUNT sub-commands, each once, in the order of
\* the datagram.
C19_MountChainInOrder ==
    SpawnReached => last.mounts = ItemsOf("BIND_MOUNT")

\* an EXEC with two different BIND_MOUNT sub-commands was decoded
C19_Witness ==
    /\ SpawnReached
    /\ Len(last.mounts) >= 2
    /\ last.mounts[1] # last.mounts[2]
    /\ last.mounts = ItemsOf("BIND_MOUNT")

\* C20: when an EXEC reaches SpawnChild(), the chain of p.cgroup.set_head
\* holds the pairs of its CGROUP_SET sub-commands, each once, in the order
\* of the datagram.
C20_CgroupSetChainInOrder ==
    SpawnReached => last.cgroup_sets = ItemsOf("CGROUP_SET")

\* the PreparedChildProcess the last EXEC was decoded to
Decoded ==
    [args |-> last.p.args, tty |-> last.p.tty, uid_gid |-> last.p.uid_gid,
     mounts |-> last.mounts, cgroup_sets |-> last.cgroup_sets]

\* C21: the PreparedChildProcess that SpawnChild() gets equals, field by
\* field and list by list in order, the one the client serialized.
C21_RoundTrip ==
    SpawnReached => Decoded = req.orig

\* the last step of a connection met a malformed datagram, or an EXEC that
\* was refused before the fork, or it destroyed the connection
LocalFailure ==
    /\ last'.conn # 0
    /\ \/ last'.malformed
       \/ last'.cmd = "EXEC" /\ last'.spawned /\ procs' = procs
       \/ last'.conn \notin connections'

\* C22: a step in which connection A meets a malformed datagram, refuses
\* an EXEC or is destroyed leaves the map of every other connection B as
\* it was, sends no signal to a child that B forked and no frame on B, and
\* B stays a connection of a server that runs.
C22_FailureStaysLocal ==
    [][LocalFailure
       => \A B \in connections \ {last'.conn} :
             /\ children'[B] = children[B]
             /\ frames'[B] = <<>>
             /\ \A pid \in Pids :
                   procs[pid].conn = B => signals'[pid] = signals[pid]
             /\ B \in connections'
             /\ ~crashed']_vars

\* the first connection was destroyed with a living child, and then the
\* second connection forked a child of its own
C22_Witness ==
    /\ connections = {2}
    /\ last.conn = 2 /\ last.cmd = "EXEC" /\ last.spawned
    /\ \E pid \in Pids :
          /\ procs[pid].state = "running" /\ procs[pid].conn = 1
          /\ signals[pid] = <<SIGTERM>>
    /\ \E ch \in children[2] :
          /\ procs[ch.pid].state = "running" /\ procs[ch.pid].conn = 2
          /\ signals[ch.pid] = <<>>

\* C23: a CONNECT with nothing after the command byte and one fd adds one
\* connection, which has no children and has taken the fd unclosed; any
\* other CONNECT is malformed, adds no connection and closes every fd it
\* came with.
C23_ConnectAddsOneConnection ==
    [][(last'.cmd = "CONNECT" /\ last'.conn # 0)
       => IF last'.len = 0 /\ last'.nfds = 1
          THEN /\ ~last'.malformed
               /\ \E n \in Conns \ connections :
                     /\ n = nextConn'
                     /\ connections' = connections \cup {n}
                     /\ children'[n] = {}
               /\ last'.taken = 1
               /\ last'.closes = <<0>>
          ELSE /\ last'.malformed
               /\ connections' = connections
               /\ nextConn' = nextConn
               /\ last'.closes = [i \in 1..last'.nfds |-> 1]]_vars

\* a well-formed CONNECT made the second connection
C23_Witness ==
    /\ last.cmd = "CONNECT" /\ last.len = 0 /\ last.nfds = 1
    /\ connections = {1, 2}
    /\ nextConn = 2
    /\ children[2] = {}
    /\ last.closes = <<0>>

\* the child called socket() under a filter that was built
SocketCalled ==
    /\ req.unit.kind = "filter"
    /\ req.unit.phase = "called"
    /\ req.unit.call.syscall = "socket"

\* C24: under the built filter socket(d) fails with EAFNOSUPPORT exactly
\* when d is none of AF_LOCAL, AF_INET, AF_INET6, and no rule matches
\* socket() of one of these three.
C24_SocketDomains ==
    SocketCalled
    => LET d == req.unit.call.arg
       IN /\ req.unit.call.result = "EAFNOSUPPORT"
               <=> d \notin {AF_LOCAL, AF_INET, AF_INET6}
          /\ d \in {AF_LOCAL, AF_INET, AF_INET6}
               => \A r \in req.unit.rules : ~RuleMatches(r, "socket", d)

\* socket(AF_INET6) was allowed
C24_Witness ==
    /\ SocketCalled
    /\ req.unit.call.arg = AF_INET6
    /\ req.unit.call.result = "ALLOW"

\* the numbers of the deny list's syscalls whose add gave outcome o
AddsWith(o) ==
    {k \in DOMAIN req.unit.outcomes : req.unit.outcomes[k] = o}

\* C25: the build goes on after an add that failed with EFAULT and ends
\* with the error of an add that failed otherwise; the KILL rules of the
\* filter are those of the syscalls whose add succeeded, and a built
\* filter has tried every syscall of the deny list.
C25_DenyListErrors ==
    req.unit.kind = "filter"
    => LET u == req.unit
           n == Len(u.outcomes)
       IN /\ \A k \in 1..n :
                u.outcomes[k] \notin {"ok", "EFAULT"}
                   <=> (k = n /\ u.phase = "failed")
          /\ {r \in u.rules : r.action = "KILL"}
                = {Rule("KILL", ForbiddenSyscalls[k], "any", 0) :
                      k \in AddsWith("ok")}
          /\ u.phase \in {"built", "called"}
                => n = Len(ForbiddenSyscalls)
          /\ u.phase = "called" /\ u.call.syscall # "socket"
                => (u.call.result = "KILL"
                      <=> \E k \in AddsWith("ok") :
                             ForbiddenSyscalls[k] = u.call.syscall)

\* the filter was built although an add failed with EFAULT, and a syscall
\* that was added after it kills
C25_Witness ==
    /\ req.unit.kind = "filter"
    /\ req.unit.phase = "called"
    /\ req.unit.outcomes[1] = "EFAULT"
    /\ req.unit.outcomes[2] = "ok"
    /\ req.unit.call.syscall = ForbiddenSyscalls[2]
    /\ req.unit.call.result = "KILL"

\* the answer of the k-th mount() call was an error
MountFailed(k) == req.unit.calls[k].result # "ok"

\* C26: the first mount() call is the plain bind; without flags it is the
\* only one; with flags the second is the remount with
\* MS_REMOUNT|MS_BIND|flags; the third, the same with MS_NOEXEC, is made
\* exactly when the remount failed with EPERM and flags has no MS_NOEXEC;
\* BindMount() throws exactly when the bind fails, or the remount fails
\* and no retry is due or the retry fails.
C26_BindMountCalls ==
    req.unit.kind = "bind_mount"
    => LET u == req.unit
           n == Len(u.calls)
           over == u.phase \in {"done", "error"}
           due == /\ n >= 2
                  /\ u.calls[2].result = "EPERM"
                  /\ "MS_NOEXEC" \notin u.flags
       IN /\ n <= 3
          /\ n >= 1 => u.calls[1].flags = {"MS_BIND"}
          /\ over => n >= 1
          /\ u.flags = {} => n <= 1
          /\ (over /\ u.flags # {} /\ ~MountFailed(1)) => n >= 2
          /\ n >= 2 => /\ ~MountFailed(1)
                       /\ u.calls[2].flags
                            = {"MS_REMOUNT", "MS_BIND"} \cup u.flags
          /\ n = 3 => /\ due
                      /\ u.calls[3].flags
                           = u.calls[2].flags \cup {"MS_NOEXEC"}
          /\ (over /\ due) => n = 3
          /\ over => (u.phase = "error"
                        <=> \/ MountFailed(1)
                            \/ /\ n >= 2
                               /\ MountFailed(2)
                               /\ (~due \/ MountFailed(3)))

\* the remount failed with EPERM, and the retry with MS_NOEXEC went through
C26_Witness ==
    /\ req.unit.kind = "bind_mount"
    /\ req.unit.phase = "done"
    /\ req.unit.flags = {"MS_RDONLY"}
    /\ Len(req.unit.calls) = 3
    /\ req.unit.calls[2].result = "EPERM"
    /\ req.unit.calls[3].flags
         = {"MS_REMOUNT", "MS_BIND", "MS_NOEXEC", "MS_RDONLY"}

\* C27: StartTransientUnit is sent at most twice, and the second time
\* exactly after the first reply was the UnitExists error and the
\* UnitRemoved signal of the server's own unit came; without systemd
\* (sd_booted() false) nothing is sent and the result is the empty
\* CgroupState.
C27_StartTransientUnitTwice ==
    req.unit.kind = "scope"
    => LET u == req.unit
       IN /\ u.calls <= 2
          /\ u.calls = 2 => u.first = "UnitExists" /\ u.unit_removed
          /\ u.unit_removed
               => /\ u.first = "UnitExists"
                  /\ u.calls = (IF u.phase = "resend" THEN 1 ELSE 2)
          /\ ~u.booted
               => /\ u.calls = 0
                  /\ u.phase \in {"start", "returned"}
                  /\ u.phase = "returned" => u.state = "empty"

\* the unit existed, its UnitRemoved signal came, and the second
\* StartTransientUnit gave a job
C27_Witness ==
    /\ req.unit.kind = "scope"
    /\ req.unit.calls = 2
    /\ req.unit.first = "UnitExists"
    /\ req.unit.unit_removed
    /\ req.unit.phase = "wait_job"

\* C28: the cgroup state is loaded and returned only after the JobRemoved
\* signal of the job that StartTransientUnit named has come.
C28_ReturnsAfterJobRemoved ==
    (/\ req.unit.kind = "scope"
     /\ req.unit.booted
     /\ req.unit.phase \in {"load", "returned"})
    => req.unit.job_removed

\* the file with its lines in the order pi
Reordered(file, pi) == [i \in DOMAIN file |-> file[pi[i]]]

\* two results with the same group_path, the same controllers and the
\* same names in mounts
SameCgroupState(a, b) ==
    /\ a.group_path = b.group_path
    /\ a.controllers = b.controllers
    /\ Range(a.mounts) = Range(b.mounts)
    /\ Len(a.mounts) = Len(b.mounts)

C30_StderrPrecedence ==
    (req.unit.kind = "copy_to" /\ req.unit.phase # "start")
    => LET u == req.unit
           o == u.options
       IN IF o.stderr_jailed
          THEN /\ u.opens = <<>>
               /\ u.dest.stderr_path = o.stderr_path
               /\ u.dest.stderr = "unset"
               /\ u.phase # "thrown"
          ELSE IF o.stderr_path # "none"
          THEN /\ Len(u.opens) = 1
               /\ u.opens[1].path = o.stderr_path
               /\ u.phase = "thrown" <=> u.opens[1].result = "fail"
               /\ u.dest.stderr = (IF u.opens[1].result = "ok"
                                   THEN o.stderr_path ELSE "unset")
               /\ u.dest.stderr_path = "none"
          ELSE IF o.stderr_null
          THEN /\ Len(u.opens) = 1
               /\ u.opens[1].path = "/dev/null"
               /\ u.phase # "thrown"
               /\ u.dest.stderr = (IF u.opens[1].result = "ok"
                                   THEN "/dev/null" ELSE "unset")
               /\ u.dest.stderr_path = "none"
          ELSE /\ u.opens = <<>>
               /\ u.dest.stderr = "unset"
               /\ u.dest.stderr_path = "none"
               /\ u.phase # "thrown"

\* options with a stderr_path and stderr_null: the file was opened, and
\* /dev/null was not
C30_Witness ==
    /\ req.unit.kind = "copy_to"
    /\ req.unit.phase = "done"
    /\ ~req.unit.options.stderr_jailed
    /\ req.unit.options.stderr_path = "log"
    /\ req.unit.options.stderr_null
    /\ req.unit.opens = <<[path |-> "log", result |-> "ok"]>>
    /\ req.unit.dest.stderr = "log"

\* the place of a step in the fixed order
StepIndex(step) == CHOOSE i \in 1..Len(ChildSteps) : ChildSteps[i] = step

\* C31: the child runs its isolation steps in the fixed order, each after
\* all the steps before it that the request asks for; only the last step
\* run may have failed, and the child exits with 0xff exactly then, with
\* no later step run.
C31_ChildStepsInOrder ==
    req.unit.kind = "child"
    => LET u == req.unit
           n == Len(u.log)
           Asked(i) == ChildSteps[i] \notin OptionalSteps
                       \/ ChildSteps[i] \in u.asked
       IN /\ \A i \in 1..n : \A j \in 1..n :
                 i < j => StepIndex(u.log[i].step) < StepIndex(u.log[j].step)
          /\ \A i \in 1..n :
                 \A k \in 1..(StepIndex(u.log[i].step) - 1) :
                     Asked(k) => \E j \in 1..(i - 1) :
                                     /\ u.log[j].step = ChildSteps[k]
                                     /\ u.log[j].result = "ok"
          /\ \A i \in 1..n : u.log[i].result = "fail" => i = n
          /\ (n > 0 /\ u.log[n].result = "fail") <=> u.state = "exited"
          /\ u.state = "exited" => u.code = ChildExitFailure
          /\ u.state = "exec" <=> (n > 0 /\ u.log[n] = [step |-> "execve",
                                                       result |-> "ok"])

\* a child that failed to drop its user id after the steps before it
C31_Witness ==
    /\ req.unit.kind = "child"
    /\ req.unit.state = "exited"
    /\ req.unit.code = ChildExitFailure
    /\ Len(req.unit.log) > 8
    /\ req.unit.log[Len(req.unit.log)] = [step |-> "setuid", result |-> "fail"]

\* C32: http_list_contains(list, item) is true exactly when the item's
\* word is the word of one of the list's elements, whether or not the
\* element or the item is in double quotes; a word that only starts an
\* element's word is no match.
C32_ListContains ==
    (req.unit.kind = "http_list" /\ req.unit.called)
    => (req.unit.result
        <=> \E i \in 1..Len(req.unit.elements) :
                req.unit.elements[i].word = req.unit.item.word)

\* the list "bt",f does not contain b, though b starts its first element
C32_Witness ==
    /\ req.unit.kind = "http_list"
    /\ req.unit.called
    /\ req.unit.list = <<"q", "b", "t", "q", ",", "f">>
    /\ req.unit.item = [word |-> <<"b">>, quoted |-> FALSE]
    /\ ~req.unit.result


\* the calls named call in the log of the last step
CallsOf(log, call) == {i \in 1..Len(log) : log[i].call = call}

\* C33: in a run of the SIGCHLD handler every child that waits is reaped;
\* a reaped pid that is in the registry has its listener, if it has one,
\* called once with the status, and is then removed with its kill timer
\* cancelled; a pid that is not in the registry causes no call; and the
\* handler disables the event exactly if the registry is volatile and
\* empty after the loop.
C33_ReapLoop ==
    [][last'.cmd = "SIGCHLD"
       => LET log == req'.log
          IN /\ \A pid \in Zombies :
                   /\ procs'[pid].state = "reaped"
                   /\ \E i \in CallsOf(log, "wait4") : log[i].pid = pid
             /\ \A i \in CallsOf(log, "wait4") :
                   LET pid == log[i].pid
                       notes == {j \in CallsOf(log, "OnChildProcessExit") :
                                    log[j].pid = pid}
                       removes == {j \in CallsOf(log, "Remove") :
                                      log[j].pid = pid}
                   IN IF log[i].listener = <<>>
                      THEN notes = {} /\ removes = {}
                      ELSE /\ Cardinality(notes) =
                                 (IF log[i].listener = <<NoListener>>
                                  THEN 0 ELSE 1)
                           /\ \A j \in notes :
                                 /\ log[j].status = log[i].status
                                 /\ <<[conn |-> log[j].conn,
                                       id |-> log[j].id]>> = log[i].listener
                                 /\ i < j
                                 /\ \A k \in removes : j < k
                           /\ Cardinality(removes) = 1
                           /\ pid \notin DOMAIN registry'
                           /\ pid \notin timers'
             /\ (sigchld_enabled /\ ~sigchld_enabled')
                   <=> (volatile_event' /\ DOMAIN registry' = {})]_vars

\* C34: after CopyTo() the destination's ns.writable_proc is true when
\* forbid_user_ns is false, whatever the source's was, and is the source's
\* when forbid_user_ns is true.
C34_WritableProc ==
    (req.unit.kind = "copy_to" /\ req.unit.phase = "done")
    => LET o == req.unit.options
       IN /\ ~o.forbid_user_ns => req.unit.dest.writable_proc
          /\ o.forbid_user_ns
                => req.unit.dest.writable_proc = o.writable_proc
          /\ req.unit.dest.forbid_user_ns = o.forbid_user_ns

\* options without writable_proc that allow user namespaces: the copy has
\* a writable /proc
C34_Witness ==
    /\ req.unit.kind = "copy_to"
    /\ req.unit.phase = "done"
    /\ ~req.unit.options.forbid_user_ns
    /\ ~req.unit.options.writable_proc
    /\ req.unit.dest.writable_proc

\* C35: when the SIGCHLD handler delivers a child's exit to its
\* connection, no child with that id is in the connection's map when
\* SendExit() is called, nor after the step.
C35_IdFreeAtExit ==
    [][last'.cmd = "SIGCHLD"
       => \A i \in CallsOf(req'.log, "SendExit") :
             /\ req'.log[i].held = {}
             /\ \A ch \in children'[req'.log[i].conn] :
                   ch.id # req'.log[i].id]_vars

\* the pids that some connection has in its map
Owned == {ch.pid : ch \in UNION {children[c] : c \in Conns}}

\* C36: a KILL for an id of the connection's map sends its signal once to
\* the child's pid and takes the child out of the map, whatever the
\* signal; and a pid that no map holds is sent no signal by any step but
\* the SIGKILL of its kill timeout, so no teardown sends it SIGTERM.
C36_KillReleasesChild ==
    /\ [][(last'.cmd = "KILL" /\ ~last'.malformed)
          => \A ch \in children[last'.conn] :
                ch.id = req'.id
                => /\ Len(req'.log) = 1
                   /\ req'.log[1].call = "Kill"
                   /\ req'.log[1].pid = ch.pid
                   /\ signals'[ch.pid] =
                         Append(signals[ch.pid], req'.log[1].signo)
                   /\ children'[last'.conn] = children[last'.conn] \ {ch}
                   /\ ch.pid \notin Owned']_vars
    /\ [][\A pid \in Pids \ Owned :
             procs[pid].state \in {"running", "zombie"}
             => signals'[pid] \in {signals[pid], <<>>,
                                   Append(signals[pid], SIGKILL)}]_vars

\* a child was sent SIGUSR1 by a KILL and lives on; its connection was
\* destroyed later, and the child was sent nothing more
C36_Witness ==
    /\ procs[1].state = "running"
    /\ procs[1].conn = 1
    /\ signals[1] = <<SIGUSR1>>
    /\ 1 \notin connections
    /\ children[1] = {}

\* C37: every pid that is in the registry with an exit listener is in the
\* map of the listener's connection under the listener's id.
C37_ListenerIsInMap ==
    \A pid \in DOMAIN registry :
        registry[pid] # NoListener
        => [id |-> registry[pid].id, pid |-> pid]
              \in children[registry[pid].conn]

\* C38: no RLIMIT sub-command writes outside the array of resource
\* limits.
C38_RlimitWritesInside ==
    req.unit.kind = "rlimit" => req.unit.outside = {}

\* the pids that the calls before place i of the log took out of the map
\* of connection c on their exit
ErasedBefore(log, i, c) ==
    {log[j].pid : j \in {k \in CallsOf(log, "OnChildProcessExit") :
                            k < i /\ log[k].conn = c}}

\* C39: a SendExit() whose send fails removes its connection at once and
\* sends SIGTERM to every child that is in its map then, which leaves the
\* map empty and the children without listener; no SendExit() on that
\* connection follows and no later step sends a frame on it; and a run of
\* the SIGCHLD handler in which this happens still reaps every child that
\* waits and takes it out of the registry.
C39_SendFailureTearsDown ==
    /\ [][\A i \in CallsOf(req'.log, "SendExit") :
             ~req'.log[i].sent
             => LET log == req'.log
                    c == log[i].conn
                    killed == {log[j].pid :
                                 j \in {k \in CallsOf(log, "Kill") :
                                           k > i /\ log[k].signo = SIGTERM}}
                    mapped == {ch.pid : ch \in children[c]}
                                 \ ErasedBefore(log, i, c)
                IN /\ c \in connections
                   /\ c \notin connections'
                   /\ log[i + 1] = [call |-> "RemoveConnection", conn |-> c]
                   /\ killed = mapped
                   /\ children'[c] = {}
                   /\ \A pid \in killed :
                         /\ pid \in DOMAIN registry'
                               => registry'[pid] = NoListener
                         /\ procs'[pid].state # "reaped"
                               => signals'[pid] = Append(signals[pid], SIGTERM)
                   /\ \A j \in CallsOf(log, "SendExit") :
                         j > i => log[j].conn # c
                   /\ last'.cmd = "SIGCHLD"
                         => \A pid \in Zombies :
                               /\ procs'[pid].state = "reaped"
                               /\ pid \notin DOMAIN registry']_vars
    /\ [][\A c \in Conns \ connections : frames'[c] = <<>>]_vars

\* the payload has at most 65,536 bytes and at most 8 fds are queued
SerializerWithinLimits ==
    /\ req.unit.size <= SerializerCapacity
    /\ Len(req.unit.fds) <= SerializerMaxFds

\* C40 as stated: the serializer stays within its limits, and a call that
\* threw left the payload and the fds as they were before the call.
C40_ThrowLeavesSerializer ==
    req.unit.kind = "serializer"
    => /\ SerializerWithinLimits
       /\ req.unit.thrown
             => /\ req.unit.size = req.unit.before.size
                /\ req.unit.fds = req.unit.before.fds

\* C40 as amended: the serializer stays within its limits; a call that
\* threw left the fds as they were, and the payload too, but for a
\* WriteString(cmd, value) whose command byte fit while its string did
\* not: that one leaves the command byte in the payload.
C40_ThrowLeavesSerializerButTag ==
    req.unit.kind = "serializer"
    => /\ SerializerWithinLimits
       /\ req.unit.thrown
             => /\ req.unit.fds = req.unit.before.fds
                /\ req.unit.size =
                      (IF /\ req.unit.op = "WriteString(cmd)"
                          /\ req.unit.before.size < SerializerCapacity
                       THEN req.unit.before.size + 1
                       ELSE req.unit.before.size)

\* a WriteString(cmd, value) threw and left its command byte behind
C40_Witness ==
    /\ req.unit.kind = "serializer"
    /\ req.unit.thrown
    /\ req.unit.op = "WriteString(cmd)"
    /\ req.unit.size = req.unit.before.size + 1
    /\ Len(req.unit.fds) = SerializerMaxFds

====
